---- MODULE Spec2Model ----
(***************************************************************************)
(* Model of the adult-hockey-agent poll cycle: the evaluator that turns    *)
(* session snapshots and the stored records into alerts, the state store   *)
(* (load, prune, update, save) and the Slack interaction that writes a     *)
(* user response into the store.                                           *)
(*                                                                         *)
(* Time is counted in whole hours of UTC since 2026-03-06T00:00Z.  A       *)
(* session date is the number of days since 2026-03-06 and a session time  *)
(* is the hour of its "HH:00" start, so that comparing two dates or two    *)
(* times as integers is comparing the YYYY-MM-DD and HH:MM strings.        *)
(***************************************************************************)
EXTENDS Integers, Sequences, FiniteSets, TLC

\* ------------------------------------------------------------------ bounds
\* Last instant (UTC hours) of the modelled clock.
MaxNow == 25
\* Number of Slack interactions handled.
MaxInteractions == 1
\* Number of earlier steps (poll cycles and user responses) behind the stored
\* state that is handed to a single call of evaluate.
EvalDepth == 3
\* Poll cycles the process begins before the wake timer is left alone.
MaxCycles == 3
\* The hours a scrape takes at most.
ScrapeLag == 1

\* ------------------------------------------------- configuration (defaults)
minGoalies == 1
minPlayersRegistered == 10
playerSpotsUrgent == 4
remindIntervalHours == 2

Config ==
  [minGoalies |-> minGoalies,
   minPlayersRegistered |-> minPlayersRegistered,
   playerSpotsUrgent |-> playerSpotsUrgent]

\* A stricter configuration, for the calls of evaluate with other thresholds.
StrictConfig ==
  [minGoalies |-> minGoalies + 1,
   minPlayersRegistered |-> minPlayersRegistered + 3,
   playerSpotsUrgent |-> playerSpotsUrgent - 1]

Configs == {Config, StrictConfig}

\* The decrease of the spots remaining that shouldAlertOpportunity asks for
\* before it repeats an OPPORTUNITY alert (a literal of the code).
viableReAlertDelta == 2

\* ------------------------------------------------------------ value spaces
NULL == "null"
NullNum == 0 - 1
\* A field that an older schema did not write.
UNDEFINED == "undefined"
UndefNum == 0 - 2
\* The result of a find that matched nothing.
NoState == [none |-> TRUE]

HoursPerDay == 24

\* The clock starts at 23:00 UTC of 2026-03-06 (18:00 ET).
StartNow == HoursPerDay - 1

\* The tracked sessions: Friday 2026-03-06 20:00 ET (an evening session,
\* which starts at 01:00 UTC of the next day) and Monday 2026-03-09 06:00 ET.
EveningKey == [date |-> 0, time |-> 20]
MorningKey == [date |-> 3, time |-> 6]
Keys == {EveningKey, MorningKey}

\* The counters <<playersRegistered, playersMax, goaliesRegistered>> the
\* upstream API reports for the two sessions: all of them for the single
\* calls of evaluate, those with the usual capacity for the poll cycles.
EveningCounters ==
  {<<12, 24, 0>>, <<12, 24, 2>>, <<14, 26, 2>>,
   <<20, 24, 2>>, <<21, 24, 2>>, <<24, 24, 2>>}
ScrapedEveningCounters ==
  {<<12, 24, 2>>, <<20, 24, 2>>, <<24, 24, 2>>}
MorningCounters == {<<20, 24, 2>>}

\* forwardWindowDays of the configuration.
forwardWindowDays == 5

HostZones == {"UTC", "ET"}

AlertTypes == {"OPPORTUNITY", "FILLING_FAST", "SOLD_OUT", "NEWLY_AVAILABLE"}
UserResponses == {"registered", "not_interested", "remind_later"}

\* A Session as parseEvents builds it; isFull is derived from the counters.
Session(k, c) ==
  [date |-> k.date, time |-> k.time,
   playersRegistered |-> c[1], playersMax |-> c[2],
   goaliesRegistered |-> c[3], isFull |-> (c[1] >= c[2])]

EveningSnapshots == {Session(EveningKey, c) : c \in EveningCounters}
MorningSnapshots == {Session(MorningKey, c) : c \in MorningCounters}
ScrapedSnapshots ==
  {Session(EveningKey, c) : c \in ScrapedEveningCounters} \cup MorningSnapshots

KeyOf(s) == [date |-> s.date, time |-> s.time]

\* toISOString().split('T')[0]: the UTC calendar day of an instant.
UTCDate(utc) == utc \div HoursPerDay

\* calculateTargetDates: the dates from the UTC date of today to
\* forwardDays later (the tracked sessions are on a Friday and a Monday).
calculateTargetDates(today, forwardDays) ==
  {d \in {k.date : k \in Keys} :
     UTCDate(today) <= d /\ d <= UTCDate(today) + forwardDays}

\* The lists parseEvents can build from the snapshots S: one Session per
\* (date, time) (the events are grouped in a map keyed by date:time),
\* ordered by time.
SessionListsOf(S) ==
  {sq \in UNION {[1..n -> S] : n \in 0..Cardinality(Keys)} :
     /\ \A i, j \in DOMAIN sq : i < j => sq[i].time <= sq[j].time
     /\ \A i, j \in DOMAIN sq : i # j => KeyOf(sq[i]) # KeyOf(sq[j])}

SessionLists == SessionListsOf(ScrapedSnapshots)

\* What scrapeEvents(today, forwardDays) can return: events of the target
\* dates only.
ScrapeOutputs(today, forwardDays) ==
  {sq \in SessionLists :
     \A i \in DOMAIN sq : sq[i].date \in calculateTargetDates(today, forwardDays)}

\* --------------------------------------------------------------- civil time
\* America/New_York switches from EST (UTC-5) to EDT (UTC-4) on 2026-03-08
\* at 07:00 UTC.
DSTStartUTC == 2 * HoursPerDay + 7

ETOffset(utc) == IF utc < DSTStartUTC THEN 5 ELSE 4

\* getETComponents: the ET calendar day and hour of a UTC instant.
getETComponents(utc) ==
  [day |-> (utc - ETOffset(utc)) \div HoursPerDay,
   hour |-> (utc - ETOffset(utc)) % HoursPerDay]

\* parseSessionTimeET: try EST first, fall back to EDT.
parseSessionTimeET(date, time) ==
  LET estCandidate == date * HoursPerDay + time + 5
  IN  IF getETComponents(estCandidate).hour = time
        THEN estCandidate
        ELSE date * HoursPerDay + time + 4

\* -------------------------------------------------------------- scheduler
\* The scheduler computes in milliseconds; the model computes in minutes.
MinutesPerHour == 60

\* The defaults of the schedule configuration.
approachWindowHours == 96
maxSleepHours == 12
pollIntervalMinutes == 60
pollIntervalAcceleratedMinutes == 30
pollStartHour == 6
pollEndHour == 23

\* Validated schedule configurations: the defaults, a short approach window,
\* a short maximal sleep, earlier starts and an earlier end of the active
\* hours (validateConfig: 0 <= pollStartHour < pollEndHour <= 23).
ScheduleConfigs ==
  {[approachWindowHours |-> a, maxSleepHours |-> ms,
    pollIntervalMinutes |-> pollIntervalMinutes,
    pollIntervalAcceleratedMinutes |-> pollIntervalAcceleratedMinutes,
    pollStartHour |-> sh, pollEndHour |-> eh,
    playerSpotsUrgent |-> playerSpotsUrgent] :
     a \in {4, approachWindowHours}, ms \in {4, maxSleepHours},
     sh \in {0, 2, pollStartHour}, eh \in {20, pollEndHour}}

\* getETComponents of an instant given in minutes (the ET offset changes on
\* a whole hour).
ETHourOf(utcMinutes) == getETComponents(utcMinutes \div MinutesPerHour).hour
ETDayOf(utcMinutes) == getETComponents(utcMinutes \div MinutesPerHour).day

\* clampToActiveHoursET: a wake time outside the active hours is pushed to
\* the next pollStartHour in ET.  Instants are in minutes.
clampToActiveHoursET(wakeTime, startHour, endHour) ==
  IF ETHourOf(wakeTime) >= startHour /\ ETHourOf(wakeTime) <= endHour
    THEN wakeTime
    ELSE LET nextDay == wakeTime + HoursPerDay * MinutesPerHour
             targetDate == IF ETHourOf(wakeTime) < startHour
                             THEN ETDayOf(wakeTime)
                             ELSE ETDayOf(nextDay)
         IN  parseSessionTimeET(targetDate, startHour) * MinutesPerHour

\* calculateNextPollDelay with the interval of the approach window chosen
\* the other way round.
calculateNextPollDelaySwapped(t, nextSessionTimeUTC, cfg, accel) ==
  LET maxSleepMs == cfg.maxSleepHours * MinutesPerHour
      Result(wakeTime, reason) ==
        [delayMs |-> clampToActiveHoursET(wakeTime, cfg.pollStartHour,
                                          cfg.pollEndHour) - t,
         reason |-> reason]
  IN  IF nextSessionTimeUTC = NullNum
        THEN Result(t + maxSleepMs, "fallback")
      ELSE
        LET approachWindowOpenUTC ==
              nextSessionTimeUTC - cfg.approachWindowHours * MinutesPerHour
        IN  IF t >= approachWindowOpenUTC
              THEN LET intervalMinutes ==
                         IF accel THEN cfg.pollIntervalMinutes
                                  ELSE cfg.pollIntervalAcceleratedMinutes
                   IN  Result(t + intervalMinutes, "approach")
            ELSE
              LET maxWakeUTC == t + maxSleepMs
                  useFallback == approachWindowOpenUTC > maxWakeUTC
                  targetWake == IF useFallback THEN maxWakeUTC
                                               ELSE approachWindowOpenUTC
              IN  Result(targetWake, IF useFallback THEN "fallback" ELSE "sleep")

\* calculateNextPollDelay that never caps the sleep at maxSleepHours.
calculateNextPollDelayUncapped(t, nextSessionTimeUTC, cfg, accel) ==
  LET maxSleepMs == cfg.maxSleepHours * MinutesPerHour
      Result(wakeTime, reason) ==
        [delayMs |-> clampToActiveHoursET(wakeTime, cfg.pollStartHour,
                                          cfg.pollEndHour) - t,
         reason |-> reason]
  IN  IF nextSessionTimeUTC = NullNum
        THEN Result(t + maxSleepMs, "fallback")
      ELSE
        LET approachWindowOpenUTC ==
              nextSessionTimeUTC - cfg.approachWindowHours * MinutesPerHour
        IN  IF t >= approachWindowOpenUTC
              THEN LET intervalMinutes ==
                         IF accel THEN cfg.pollIntervalAcceleratedMinutes
                                  ELSE cfg.pollIntervalMinutes
                   IN  Result(t + intervalMinutes, "approach")
            ELSE Result(approachWindowOpenUTC, "sleep")

\* calculateNextPollDelay(now, nextSessionTimeUTC, config, accelerated): the
\* delay (in minutes) and the reason.  Instants are in minutes;
\* nextSessionTimeUTC is NullNum when there is no next session.
calculateNextPollDelay(t, nextSessionTimeUTC, cfg, accel) ==
  LET maxSleepMs == cfg.maxSleepHours * MinutesPerHour
      Result(wakeTime, reason) ==
        [delayMs |-> clampToActiveHoursET(wakeTime, cfg.pollStartHour,
                                          cfg.pollEndHour) - t,
         reason |-> reason]
  IN  IF nextSessionTimeUTC = NullNum
        THEN Result(t + maxSleepMs, "fallback")
      ELSE
        LET approachWindowOpenUTC ==
              nextSessionTimeUTC - cfg.approachWindowHours * MinutesPerHour
        IN  IF t >= approachWindowOpenUTC
              THEN LET intervalMinutes ==
                         IF accel THEN cfg.pollIntervalAcceleratedMinutes
                                  ELSE cfg.pollIntervalMinutes
                   IN  Result(t + intervalMinutes, "approach")
            ELSE
              LET maxWakeUTC == t + maxSleepMs
                  useFallback == approachWindowOpenUTC > maxWakeUTC
                  targetWake == IF useFallback THEN maxWakeUTC
                                               ELSE approachWindowOpenUTC
              IN  Result(targetWake, IF useFallback THEN "fallback" ELSE "sleep")

\* An instant of the model's clock (UTC hours), or no instant, in minutes.
InMinutes(utc) == IF utc = NullNum THEN NullNum ELSE utc * MinutesPerHour

\* new Date(`${date}T${time}:00`): a date-time string without an offset is
\* read as local time of the host.
LocalDateTime(date, time, tz) ==
  IF tz = "UTC" THEN date * HoursPerDay + time
                ELSE parseSessionTimeET(date, time)

\* ---------------------------------------------------------------- evaluator
findPreviousState(session, previousState) ==
  LET hits == {i \in DOMAIN previousState :
                 /\ previousState[i].session.date = session.date
                 /\ previousState[i].session.time = session.time}
  IN  IF hits = {} THEN NoState
      ELSE previousState[CHOOSE i \in hits : \A j \in hits : i <= j]

\* lastPlayerCount ?? 0
OrZero(n) == IF n = NullNum THEN 0 ELSE n

\* prevState?.lastAlertType
LastAlertTypeOf(prevState) ==
  IF prevState = NoState THEN NULL ELSE prevState.lastAlertType

\* shouldAlertOpportunity without its hierarchy check.
shouldAlertOpportunityNoHierarchy(session, prevState) ==
  IF prevState = NoState \/ LastAlertTypeOf(prevState) # "OPPORTUNITY"
    THEN TRUE
  ELSE LET prevSpotsRemaining == session.playersMax - OrZero(prevState.lastPlayerCount)
           currentSpotsRemaining == session.playersMax - session.playersRegistered
           decrease == prevSpotsRemaining - currentSpotsRemaining
       IN  decrease >= viableReAlertDelta

shouldAlertOpportunity(session, prevState) ==
  IF LastAlertTypeOf(prevState) \in {"FILLING_FAST", "NEWLY_AVAILABLE", "SOLD_OUT"}
    THEN FALSE
  ELSE IF prevState = NoState \/ LastAlertTypeOf(prevState) # "OPPORTUNITY"
    THEN TRUE
  ELSE LET prevSpotsRemaining == session.playersMax - OrZero(prevState.lastPlayerCount)
           currentSpotsRemaining == session.playersMax - session.playersRegistered
           decrease == prevSpotsRemaining - currentSpotsRemaining
       IN  decrease >= viableReAlertDelta

\* shouldAlertFillingFast without any suppression.
shouldAlertFillingFastAlways(session, prevState) == TRUE

shouldAlertFillingFast(session, prevState) ==
  IF LastAlertTypeOf(prevState) \in {"NEWLY_AVAILABLE", "SOLD_OUT"}
    THEN session.playersRegistered > OrZero(prevState.lastPlayerCount)
  ELSE IF prevState = NoState \/ LastAlertTypeOf(prevState) # "FILLING_FAST"
    THEN TRUE
  ELSE session.playersRegistered > OrZero(prevState.lastPlayerCount)

createAlert(type, session) == [type |-> type, session |-> session]

\* The past check of the loop: sessionDateTime < now.
IsPast(session, t, tz) == LocalDateTime(session.date, session.time, tz) < t

\* The FILLING_FAST condition with a strict comparison.
FillingFastConditionStrict(session, config) ==
  session.playersMax - session.playersRegistered < config.playerSpotsUrgent

FillingFastCondition(session, config) ==
  session.playersMax - session.playersRegistered <= config.playerSpotsUrgent

OpportunityCondition(session, config) ==
  /\ session.goaliesRegistered >= config.minGoalies
  /\ session.playersRegistered >= config.minPlayersRegistered

\* The threshold stages without the continue after FILLING_FAST.
ThresholdAlertsBoth(session, prevState, config) ==
  (IF FillingFastCondition(session, config) /\ shouldAlertFillingFast(session, prevState)
     THEN <<createAlert("FILLING_FAST", session)>> ELSE <<>>)
    \o (IF OpportunityCondition(session, config) /\ shouldAlertOpportunity(session, prevState)
          THEN <<createAlert("OPPORTUNITY", session)>> ELSE <<>>)

\* The alerts pushed by the body of the loop for the stages below the two
\* transitions: FILLING_FAST, and OPPORTUNITY only when FILLING_FAST did not
\* fire.
ThresholdAlerts(session, prevState, config) ==
  IF FillingFastCondition(session, config) /\ shouldAlertFillingFast(session, prevState)
    THEN <<createAlert("FILLING_FAST", session)>>
  ELSE IF OpportunityCondition(session, config) /\ shouldAlertOpportunity(session, prevState)
    THEN <<createAlert("OPPORTUNITY", session)>>
  ELSE <<>>

\* The loop body with the isRegistered check ahead of the two transitions.
EvaluateSessionRegisteredFirst(session, previousState, config, t, tz) ==
  LET prevState == findPreviousState(session, previousState)
  IN  IF IsPast(session, t, tz) THEN <<>>
      ELSE IF prevState # NoState /\ prevState.isRegistered THEN <<>>
      ELSE IF prevState # NoState /\ session.isFull /\ ~prevState.session.isFull
        THEN <<createAlert("SOLD_OUT", session)>>
      ELSE IF prevState # NoState /\ ~session.isFull /\ prevState.session.isFull
        THEN <<createAlert("NEWLY_AVAILABLE", session)>>
      ELSE IF session.isFull THEN <<>>
      ELSE ThresholdAlerts(session, prevState, config)

\* One iteration of the loop of evaluate: the alerts it pushes for a session.
EvaluateSession(session, previousState, config, t, tz) ==
  LET prevState == findPreviousState(session, previousState)
  IN  IF IsPast(session, t, tz) THEN <<>>
      ELSE IF prevState # NoState /\ session.isFull /\ ~prevState.session.isFull
        THEN <<createAlert("SOLD_OUT", session)>>
      ELSE IF prevState # NoState /\ ~session.isFull /\ prevState.session.isFull
        THEN <<createAlert("NEWLY_AVAILABLE", session)>>
      ELSE IF prevState # NoState /\ prevState.isRegistered THEN <<>>
      ELSE IF session.isFull THEN <<>>
      ELSE ThresholdAlerts(session, prevState, config)

\* a before b in the comparator of the final sort (date, then time).
AlertBefore(a, b) ==
  \/ a.session.date < b.session.date
  \/ a.session.date = b.session.date /\ a.session.time < b.session.time

RECURSIVE InsertSorted(_, _)
InsertSorted(sorted, a) ==
  IF sorted = <<>> THEN <<a>>
  ELSE IF AlertBefore(a, Head(sorted)) THEN <<a>> \o sorted
  ELSE <<Head(sorted)>> \o InsertSorted(Tail(sorted), a)

\* Array.prototype.sort with the comparator above (stable).
RECURSIVE SortAlerts(_)
SortAlerts(al) ==
  IF al = <<>> THEN <<>>
  ELSE InsertSorted(SortAlerts(SubSeq(al, 1, Len(al) - 1)), al[Len(al)])

RECURSIVE PushAlerts(_, _, _, _, _)
PushAlerts(sq, previousState, config, t, tz) ==
  IF sq = <<>> THEN <<>>
  ELSE EvaluateSession(Head(sq), previousState, config, t, tz)
         \o PushAlerts(Tail(sq), previousState, config, t, tz)

\* evaluate(sessions, previousState, config), with the clock and the host
\* timezone it reads made explicit.
evaluate(sq, previousState, config, t, tz) ==
  SortAlerts(PushAlerts(sq, previousState, config, t, tz))

\* -------------------------------------------------------------- state store
\* v ?? null, for a string field and for a numeric field.
OrNull(v) == IF v = UNDEFINED THEN NULL ELSE v
OrNullNum(v) == IF v = UndefNum THEN NullNum ELSE v

\* normalizeSessionState that resets the user's response on every load.
normalizeSessionStateReset(entry) ==
  [entry EXCEPT !.userResponse = NULL,
                !.userRespondedAt = NullNum,
                !.remindAfter = NullNum]

normalizeSessionState(entry) ==
  [entry EXCEPT !.userResponse = OrNull(entry.userResponse),
                !.userRespondedAt = OrNullNum(entry.userRespondedAt),
                !.remindAfter = OrNullNum(entry.remindAfter)]

\* loadState of a file holding a JSON array of records.
loadState(contents) ==
  [i \in DOMAIN contents |-> normalizeSessionState(contents[i])]

\* pruneOldSessions that also removes the records dated compareDate.
pruneOldSessionsStrict(st, compareDate) ==
  LET compareDateStr == UTCDate(compareDate)
      Keep(s) == s.session.date > compareDateStr
  IN  SelectSeq(st, Keep)

\* pruneOldSessions that also removes the first record of the list.
pruneOldSessionsShift(st, compareDate) ==
  LET compareDateStr == UTCDate(compareDate)
      Keep(s) == s.session.date >= compareDateStr
  IN  IF st = <<>> THEN <<>> ELSE SelectSeq(Tail(st), Keep)

pruneOldSessions(st, compareDate) ==
  LET compareDateStr == UTCDate(compareDate)
      Keep(s) == s.session.date >= compareDateStr
  IN  SelectSeq(st, Keep)

\* updateSessionState that writes a fresh record for the session: the user's
\* response is not carried over.
updateSessionStateFresh(st, session, alertType, alertAt) ==
  LET hits == {i \in DOMAIN st :
                 /\ st[i].session.date = session.date
                 /\ st[i].session.time = session.time}
      existingIndex == IF hits = {} THEN 0
                       ELSE CHOOSE i \in hits : \A j \in hits : i <= j
      existingState == IF existingIndex > 0 THEN st[existingIndex] ELSE NoState
      newState ==
        [session |-> session,
         lastAlertType |->
           IF alertType # NULL THEN alertType
           ELSE IF existingState # NoState THEN existingState.lastAlertType ELSE NULL,
         lastAlertAt |->
           IF alertAt # NullNum THEN alertAt
           ELSE IF existingState # NoState THEN existingState.lastAlertAt ELSE NullNum,
         lastPlayerCount |->
           IF alertType # NULL THEN session.playersRegistered
           ELSE IF existingState # NoState THEN existingState.lastPlayerCount ELSE NullNum,
         isRegistered |-> FALSE,
         userResponse |-> NULL,
         userRespondedAt |-> NullNum,
         remindAfter |-> NullNum]
  IN  IF existingIndex > 0
        THEN [st EXCEPT ![existingIndex] = newState]
        ELSE Append(st, newState)

\* updateSessionState that never stamps the alert: lastAlertAt is carried over
\* even when an alert fired.
updateSessionStateNoStamp(st, session, alertType, alertAt) ==
  LET hits == {i \in DOMAIN st :
                 /\ st[i].session.date = session.date
                 /\ st[i].session.time = session.time}
      existingIndex == IF hits = {} THEN 0
                       ELSE CHOOSE i \in hits : \A j \in hits : i <= j
      existingState == IF existingIndex > 0 THEN st[existingIndex] ELSE NoState
      newState ==
        [session |-> session,
         lastAlertType |->
           IF alertType # NULL THEN alertType
           ELSE IF existingState # NoState THEN existingState.lastAlertType ELSE NULL,
         lastAlertAt |->
           IF existingState # NoState THEN existingState.lastAlertAt ELSE NullNum,
         lastPlayerCount |->
           IF alertType # NULL THEN session.playersRegistered
           ELSE IF existingState # NoState THEN existingState.lastPlayerCount ELSE NullNum,
         isRegistered |->
           IF existingState # NoState THEN existingState.isRegistered ELSE FALSE,
         userResponse |->
           IF existingState # NoState THEN existingState.userResponse ELSE NULL,
         userRespondedAt |->
           IF existingState # NoState THEN existingState.userRespondedAt ELSE NullNum,
         remindAfter |->
           IF existingState # NoState THEN existingState.remindAfter ELSE NullNum]
  IN  IF existingIndex > 0
        THEN [st EXCEPT ![existingIndex] = newState]
        ELSE Append(st, newState)

\* updateSessionState without the findIndex: the new record is always appended.
updateSessionStateAppend(st, session, alertType, alertAt) ==
  LET hits == {i \in DOMAIN st :
                 /\ st[i].session.date = session.date
                 /\ st[i].session.time = session.time}
      existingIndex == IF hits = {} THEN 0
                       ELSE CHOOSE i \in hits : \A j \in hits : i <= j
      existingState == IF existingIndex > 0 THEN st[existingIndex] ELSE NoState
      newState ==
        [session |-> session,
         lastAlertType |->
           IF alertType # NULL THEN alertType
           ELSE IF existingState # NoState THEN existingState.lastAlertType ELSE NULL,
         lastAlertAt |->
           IF alertAt # NullNum THEN alertAt
           ELSE IF existingState # NoState THEN existingState.lastAlertAt ELSE NullNum,
         lastPlayerCount |->
           IF alertType # NULL THEN session.playersRegistered
           ELSE IF existingState # NoState THEN existingState.lastPlayerCount ELSE NullNum,
         isRegistered |->
           IF existingState # NoState THEN existingState.isRegistered ELSE FALSE,
         userResponse |->
           IF existingState # NoState THEN existingState.userResponse ELSE NULL,
         userRespondedAt |->
           IF existingState # NoState THEN existingState.userRespondedAt ELSE NullNum,
         remindAfter |->
           IF existingState # NoState THEN existingState.remindAfter ELSE NullNum]
  IN  Append(st, newState)

updateSessionState(st, session, alertType, alertAt) ==
  LET hits == {i \in DOMAIN st :
                 /\ st[i].session.date = session.date
                 /\ st[i].session.time = session.time}
      existingIndex == IF hits = {} THEN 0
                       ELSE CHOOSE i \in hits : \A j \in hits : i <= j
      existingState == IF existingIndex > 0 THEN st[existingIndex] ELSE NoState
      newState ==
        [session |-> session,
         lastAlertType |->
           IF alertType # NULL THEN alertType
           ELSE IF existingState # NoState THEN existingState.lastAlertType ELSE NULL,
         lastAlertAt |->
           IF alertAt # NullNum THEN alertAt
           ELSE IF existingState # NoState THEN existingState.lastAlertAt ELSE NullNum,
         lastPlayerCount |->
           IF alertType # NULL THEN session.playersRegistered
           ELSE IF existingState # NoState THEN existingState.lastPlayerCount ELSE NullNum,
         isRegistered |->
           IF existingState # NoState THEN existingState.isRegistered ELSE FALSE,
         userResponse |->
           IF existingState # NoState THEN existingState.userResponse ELSE NULL,
         userRespondedAt |->
           IF existingState # NoState THEN existingState.userRespondedAt ELSE NullNum,
         remindAfter |->
           IF existingState # NoState THEN existingState.remindAfter ELSE NullNum]
  IN  IF existingIndex > 0
        THEN [st EXCEPT ![existingIndex] = newState]
        ELSE Append(st, newState)

\* updateUserResponse that leaves remindAfter alone unless the response is
\* remind_later.
updateUserResponseKeepRemind(st, date, time, userResponse, remindHours, t) ==
  [i \in DOMAIN st |->
     IF st[i].session.date = date /\ st[i].session.time = time
       THEN [st[i] EXCEPT
               !.isRegistered = IF userResponse = "registered" THEN TRUE ELSE @,
               !.userResponse = userResponse,
               !.userRespondedAt = t,
               !.remindAfter = IF userResponse = "remind_later"
                                 THEN t + remindHours ELSE @]
       ELSE st[i]]

updateUserResponse(st, date, time, userResponse, remindHours, t) ==
  [i \in DOMAIN st |->
     IF st[i].session.date = date /\ st[i].session.time = time
       THEN [st[i] EXCEPT
               !.isRegistered = IF userResponse = "registered" THEN TRUE ELSE @,
               !.userResponse = userResponse,
               !.userRespondedAt = t,
               !.remindAfter = IF userResponse = "remind_later"
                                 THEN t + remindHours ELSE NullNum]
       ELSE st[i]]

\* processInteraction for a parsed, recognised action: the new contents of
\* the state file.
processInteraction(contents, k, userResponse, remindHours, t) ==
  LET st == loadState(contents)
      found == \E i \in DOMAIN st :
                 st[i].session.date = k.date /\ st[i].session.time = k.time
  IN  IF found
        THEN updateUserResponse(st, k.date, k.time, userResponse, remindHours, t)
        ELSE contents

\* getNextSessionTime(sessions, now): the earliest session time strictly
\* after now (t, in minutes), in UTC hours, or NullNum.
RECURSIVE EarliestAfter(_, _, _)
EarliestAfter(st, t, earliest) ==
  IF st = <<>> THEN earliest
  ELSE LET sessionTime == parseSessionTimeET(Head(st).session.date,
                                             Head(st).session.time)
       IN  IF InMinutes(sessionTime) <= t
             THEN EarliestAfter(Tail(st), t, earliest)
           ELSE IF earliest = NullNum \/ sessionTime < earliest
             THEN EarliestAfter(Tail(st), t, sessionTime)
           ELSE EarliestAfter(Tail(st), t, earliest)

getNextSessionTime(st, t) == EarliestAfter(st, t, NullNum)

\* shouldAccelerate: some stored session is in the FILLING_FAST range.
shouldAccelerate(cfg, contents) ==
  \E i \in DOMAIN loadState(contents) :
    LET session == loadState(contents)[i].session
    IN  /\ ~session.isFull
        /\ session.playersMax - session.playersRegistered <= cfg.playerSpotsUrgent

\* ------------------------------------------------------------ the poll cycle
\* alertedSessions.get(key): the type of the alert of a session, if any.
AlertTypeFor(al, session) ==
  LET hits == {i \in DOMAIN al : KeyOf(al[i].session) = KeyOf(session)}
  IN  IF hits = {} THEN NULL
      ELSE al[CHOOSE i \in hits : \A j \in hits : i >= j].type

\* Step 5 of poll: updateSessionState for each scraped session in turn.
RECURSIVE UpdateAll(_, _, _, _)
UpdateAll(st, sq, al, at) ==
  IF sq = <<>> THEN st
  ELSE LET type == AlertTypeFor(al, Head(sq))
       IN  UpdateAll(updateSessionState(st, Head(sq), type,
                                        IF type # NULL THEN at ELSE NullNum),
                     Tail(sq), al, at)

\* The state handed to evaluate by a cycle that loads the file at instant t.
Loaded(contents, t) == pruneOldSessions(loadState(contents), t)

\* ------------------------------------------------- bookkeeping of the proofs
\* The positions and the types of the alerts of session k in an alert list.
AlertIdx(al, k) == {i \in DOMAIN al : KeyOf(al[i].session) = k}
TypesFor(al, k) == {al[i].type : i \in AlertIdx(al, k)}

\* The stored record of session k (the first one), or NoState.
RecordFor(st, k) ==
  LET hits == {i \in DOMAIN st : KeyOf(st[i].session) = k}
  IN  IF hits = {} THEN NoState
      ELSE st[CHOOSE i \in hits : \A j \in hits : i <= j]

SpotsRemaining(s) == s.playersMax - s.playersRegistered

\* The spots remaining of each session at its last recorded OPPORTUNITY
\* alert, after the alerts al of a cycle have been recorded.
RecordOpportunitySpots(spots, al) ==
  [k \in Keys |->
     IF "OPPORTUNITY" \in TypesFor(al, k)
       THEN SpotsRemaining(al[CHOOSE i \in AlertIdx(al, k) : al[i].type = "OPPORTUNITY"].session)
       ELSE spots[k]]

NoSpots == [k \in Keys |-> NullNum]

\* ------------------------------------------- stored states evaluate is given
\* An instant before the clock starts, at which every tracked session is
\* still ahead whatever the host timezone is: 2026-03-06T00:00Z.
EarlierNow == EveningKey.date * HoursPerDay

\* One poll cycle without suspension that observes the evening session as s:
\* evaluate, then updateSessionState for the observed session.
CycleOn(h, s, config) ==
  LET al == evaluate(<<s>>, h.state, config, EarlierNow, "ET")
  IN  [state |-> UpdateAll(h.state, <<s>>, al, EarlierNow),
       spots |-> RecordOpportunitySpots(h.spots, al)]

\* One user response to the evening session.
RespondOn(h, r) ==
  [state |-> processInteraction(h.state, EveningKey, r, remindIntervalHours, EarlierNow),
   spots |-> h.spots]

\* The stored states (with the spots at the last OPPORTUNITY alert) that at
\* most n cycles and responses leave behind, starting from an empty store.
RECURSIVE Histories(_, _)
Histories(n, config) ==
  IF n = 0 THEN {[state |-> <<>>, spots |-> NoSpots]}
  ELSE LET P == Histories(n - 1, config)
       IN  P \cup {CycleOn(h, s, config) : h \in P, s \in EveningSnapshots}
             \cup {RespondOn(h, r) : h \in P, r \in UserResponses}

\* The session lists of the single calls of evaluate: the evening session,
\* alone or followed by the morning session.
EvalInputs ==
  {sq \in SessionListsOf(EveningSnapshots \cup MorningSnapshots) :
     \E i \in DOMAIN sq : KeyOf(sq[i]) = EveningKey}

VARIABLES
  file,         \* contents of the state file: a sequence of SessionState records
  now,          \* the wall clock, in UTC hours
  tz,           \* the timezone of the host
  config,       \* the configuration in force
  pc,           \* where poll() is: "idle", "scraping" or "sending";
                \* for a single call of evaluate: "call" or "return"
  today,        \* poll, while scraping: the instant passed to scrapeEvents
  sessions,     \* the sessions scraped by the current (or the last) cycle
  alerts,       \* the alerts evaluate returned in the current (or the last) cycle
  state,        \* the loaded and pruned state evaluate was given
                \* (poll: while sending)
  sendIdx,      \* poll, while sending: index of the alert being delivered
  interactions, \* number of Slack interactions handled so far
  regd,         \* history: the sessions a 'registered' response was recorded for
  oppSpots,     \* history: spots remaining of each session at its last
                \* recorded OPPORTUNITY alert
  nextSession,  \* scheduleNextPoll: the next session time, in UTC hours
  accelerated,  \* scheduleNextPoll: the accelerated flag
  schedule,     \* scheduleNextPoll: the result of calculateNextPollDelay
  nowMinute,    \* scheduler: the minutes past the hour of now
  mainPc,       \* main: "start", "initial" (awaiting the initial poll) or
                \* "running" (signal handlers registered)
  polls,        \* the executions of poll() in progress: who called each and
                \* where it is
  scheduledTimeout, \* the wake timer: NULL, "armed", "fired" or "cleared"
  httpServer,   \* the HTTP server: "listening", "closing" or "closed"
  signalled,    \* history: a shutdown signal has been received
  exited,       \* the process has ended
  cycles,       \* number of poll cycles begun
  disk,         \* the state file as it is on disk: a document
  tempFile,     \* the temporary file of saveState: a document
  before,       \* history: the state file when the cycle began
  thrown,       \* saveState has thrown
  cleanupFailed,\* history: saveState could not remove its temporary file
  loadedState,  \* what the last loadState of the state file returned
  pollResult,   \* what the caller of poll() gets: "pending", "resolved" or
                \* "rejected"
  invoked,      \* the calls of send made: pairs of alert index and notifier
  failedSends,  \* the calls of send that threw
  request,      \* the interaction request the HTTP handler is given
  confirm       \* sendConfirmation: the responses to its POSTs and its result

vars ==
  <<file, now, tz, config, pc, today, sessions, alerts, state, sendIdx,
    interactions, regd, oppSpots, nextSession, accelerated, schedule,
    nowMinute, mainPc, polls, scheduledTimeout, httpServer, signalled, exited,
    cycles, disk, tempFile, before, thrown, cleanupFailed, loadedState,
    pollResult, invoked, failedSends, request, confirm>>

\* The variables of the callers and the collaborators of the cycle: the
\* result of poll(), the notifiers, the interaction handler.
ioVars == <<pollResult, invoked, failedSends, request, confirm>>

\* The variables of the state file on disk.
storeVars == <<disk, tempFile, before, thrown, cleanupFailed, loadedState>>

\* The variables of the poll cycle, of the delay computation and of the disk.
dataVars ==
  <<file, now, tz, config, pc, today, sessions, alerts, state, sendIdx,
    interactions, regd, oppSpots, nextSession, accelerated, schedule,
    nowMinute, storeVars, ioVars>>

\* The variables of the process: main, the wake timer, the signal handlers.
mainVars ==
  <<mainPc, polls, scheduledTimeout, httpServer, signalled, exited, cycles>>

\* What the actions of the poll cycle and of the delay computation leave
\* alone.
asideVars == <<mainVars, storeVars, ioVars>>

\* What the steps of a save leave alone.
besideStore == <<mainVars, ioVars>>

\* No notifier has been called, no request and no confirmation is under way.
IoAside ==
  /\ pollResult = "pending"
  /\ invoked = {}
  /\ failedSends = {}
  /\ request = NoState
  /\ confirm = NoState

\* main is not part of the picture, nor is the disk.
MainAside ==
  /\ IoAside
  /\ disk = <<>>
  /\ tempFile = <<>>
  /\ before = <<>>
  /\ thrown = FALSE
  /\ cleanupFailed = FALSE
  /\ loadedState = <<>>
  /\ mainPc = "start"
  /\ polls = <<>>
  /\ scheduledTimeout = NULL
  /\ httpServer = "listening"
  /\ signalled = FALSE
  /\ exited = FALSE
  /\ cycles = 0

Init ==
  /\ file = <<>>
  /\ now = StartNow
  /\ tz \in HostZones
  /\ config = Config
  /\ pc = "idle"
  /\ today = NullNum
  /\ sessions = <<>>
  /\ alerts = <<>>
  /\ state = <<>>
  /\ sendIdx = 0
  /\ interactions = 0
  /\ regd = {}
  /\ oppSpots = NoSpots
  /\ nextSession = NullNum
  /\ accelerated = FALSE
  /\ schedule = NoState
  /\ nowMinute = 0
  /\ MainAside

\* poll() is entered: scrapeEvents(new Date(), ...) is called and awaited.
PollStart ==
  /\ pc = "idle"
  /\ pc' = "scraping"
  /\ today' = now
  /\ UNCHANGED <<file, now, tz, config, nextSession, accelerated, schedule, nowMinute, sessions, alerts, state, sendIdx,
                 interactions, regd, oppSpots>>
  /\ UNCHANGED asideVars

\* scrapeEvents rejects: the catch of poll swallows the error; the cycle has
\* observed no session and evaluated nothing.
ScrapeFail ==
  /\ pc = "scraping"
  /\ pc' = "idle"
  /\ today' = NullNum
  /\ sessions' = <<>>
  /\ alerts' = <<>>
  /\ UNCHANGED <<file, now, tz, config, nextSession, accelerated, schedule, nowMinute, state, sendIdx, interactions, regd, oppSpots>>
  /\ UNCHANGED asideVars

\* scrapeEvents resolves with sq: load, prune and evaluate run without
\* suspension.  With no alert there is no await before saveState either.
PollEvaluate(sq) ==
  LET loaded == Loaded(file, now)
      al == evaluate(sq, loaded, config, now, tz)
  IN  /\ pc = "scraping"
      /\ today' = NullNum
      /\ sessions' = sq
      /\ alerts' = al
      /\ IF al = <<>>
           THEN /\ file' = UpdateAll(loaded, sq, al, now)
                /\ pc' = "idle"
                /\ state' = <<>>
                /\ sendIdx' = 0
           ELSE /\ file' = file
                /\ pc' = "sending"
                /\ state' = loaded
                /\ sendIdx' = 1
      /\ UNCHANGED <<now, tz, config, nextSession, accelerated, schedule, nowMinute, interactions, regd, oppSpots>>
      /\ UNCHANGED asideVars

ScrapeDone ==
  \E sq \in ScrapeOutputs(today, forwardWindowDays) : PollEvaluate(sq)

\* The notifiers have been awaited for one alert (a rejected send is caught
\* and logged); after the last alert the state is updated and saved.
SendDone ==
  /\ pc = "sending"
  /\ IF sendIdx < Len(alerts)
       THEN /\ sendIdx' = sendIdx + 1
            /\ UNCHANGED <<file, pc, state, oppSpots>>
       ELSE /\ file' = UpdateAll(state, sessions, alerts, now)
            /\ pc' = "idle"
            /\ state' = <<>>
            /\ sendIdx' = 0
            /\ oppSpots' = RecordOpportunitySpots(oppSpots, alerts)
  /\ UNCHANGED <<now, tz, config, nextSession, accelerated, schedule, nowMinute, today, sessions, alerts, interactions, regd>>
  /\ UNCHANGED asideVars

\* The record of session k is in the state file.
Found(contents, k) ==
  \E i \in DOMAIN contents :
    contents[i].session.date = k.date /\ contents[i].session.time = k.time

\* The Slack interaction handler runs processInteraction for a button the
\* user pressed.  An interaction for a session that has no record leaves the
\* file as it is and is not counted.
Interact ==
  /\ interactions < MaxInteractions
  /\ interactions' = interactions + 1
  /\ \E k \in Keys, r \in UserResponses :
       /\ Found(file, k)
       /\ file' = processInteraction(file, k, r, remindIntervalHours, now)
       /\ regd' = IF r = "registered" THEN regd \cup {k} ELSE regd
  /\ UNCHANGED <<now, tz, config, nextSession, accelerated, schedule, nowMinute, pc, today, sessions, alerts, state, sendIdx, oppSpots>>
  /\ UNCHANGED asideVars

\* An hour passes.
Tick ==
  /\ now < MaxNow
  /\ now' = now + 1
  /\ UNCHANGED <<file, tz, config, nextSession, accelerated, schedule, nowMinute, pc, today, sessions, alerts, state, sendIdx,
                 interactions, regd, oppSpots>>
  /\ UNCHANGED asideVars

Next ==
  \/ PollStart
  \/ ScrapeFail
  \/ ScrapeDone
  \/ SendDone
  \/ Interact
  \/ Tick

Spec == Init /\ [][Next]_vars

\* ------------------------------------------------- single calls of evaluate
\* evaluate(sessions, state, config) is about to be called, at any instant of
\* the clock, on any host, with either configuration, with a stored state
\* that earlier cycles and responses left behind.
EvalInit ==
  /\ pc = "call"
  /\ now \in StartNow..MaxNow
  /\ tz \in HostZones
  /\ config \in Configs
  /\ \E h \in Histories(EvalDepth, config) :
       /\ state = h.state
       /\ oppSpots = h.spots
  /\ sessions \in EvalInputs
  /\ alerts = <<>>
  /\ file = <<>>
  /\ today = NullNum
  /\ sendIdx = 0
  /\ interactions = 0
  /\ regd = {}
  /\ nextSession = NullNum
  /\ accelerated = FALSE
  /\ schedule = NoState
  /\ nowMinute = 0
  /\ MainAside

EvalCall ==
  /\ pc = "call"
  /\ pc' = "return"
  /\ alerts' = evaluate(sessions, state, config, now, tz)
  /\ UNCHANGED <<file, now, tz, config, nextSession, accelerated, schedule, nowMinute, today, sessions, state, sendIdx,
                 interactions, regd, oppSpots>>
  /\ UNCHANGED asideVars

EvalNext == EvalCall

EvalSpec == EvalInit /\ [][EvalNext]_vars

\* ------------------------------------ single poll cycles across the window
\* The last hour of the UTC day of the last tracked session.
LastHour == (MorningKey.date + 1) * HoursPerDay - 1

\* What a first cycle that observes sq leaves behind, run at EarlierNow on an
\* empty store.
FirstCycle(sq) ==
  LET al == evaluate(sq, <<>>, Config, EarlierNow, "ET")
  IN  [state |-> UpdateAll(<<>>, sq, al, EarlierNow),
       spots |-> RecordOpportunitySpots(NoSpots, al)]

\* The stores poll() finds: what a first cycle left behind, or what a few
\* cycles and responses about the evening session left behind.
CycleStores ==
  {FirstCycle(sq) : sq \in SessionLists} \cup Histories(EvalDepth, Config)

\* poll() is about to run, at any hour from EarlierNow to LastHour, on a
\* store earlier cycles and responses wrote; nothing else touches the store
\* meanwhile.
CycleInit ==
  /\ pc = "start"
  /\ now \in EarlierNow..LastHour
  /\ tz \in HostZones
  /\ config = Config
  /\ \E h \in CycleStores :
       /\ file = h.state
       /\ oppSpots = h.spots
  /\ today = NullNum
  /\ sessions = <<>>
  /\ alerts = <<>>
  /\ state = <<>>
  /\ sendIdx = 0
  /\ interactions = 0
  /\ regd = {}
  /\ nextSession = NullNum
  /\ accelerated = FALSE
  /\ schedule = NoState
  /\ nowMinute = 0
  /\ MainAside

\* Step 1 of poll: scrapeEvents(new Date(), forwardWindowDays) resolves.
CycleScrape ==
  /\ pc = "start"
  /\ pc' = "scraped"
  /\ today' = now
  /\ sessions' \in ScrapeOutputs(now, forwardWindowDays)
  /\ UNCHANGED <<file, now, tz, config, nextSession, accelerated, schedule, nowMinute, alerts, state, sendIdx, interactions,
                 regd, oppSpots>>
  /\ UNCHANGED asideVars

\* Steps 2 to 6 of poll: load, prune, evaluate, send, update, save.
CycleFinish ==
  /\ pc = "scraped"
  /\ pc' = "saved"
  /\ state' = Loaded(file, now)
  /\ alerts' = evaluate(sessions, state', config, now, tz)
  /\ file' = UpdateAll(state', sessions, alerts', now)
  /\ oppSpots' = RecordOpportunitySpots(oppSpots, alerts')
  /\ UNCHANGED <<now, tz, config, nextSession, accelerated, schedule, nowMinute, today, sessions, sendIdx, interactions, regd>>
  /\ UNCHANGED asideVars

CycleNext == CycleScrape \/ CycleFinish

CycleSpec == CycleInit /\ [][CycleNext]_vars

\* ------------------------------------------- single calls of the scheduler
\* calculateNextPollDelay is about to be called at any hour or half hour from
\* EarlierNow to LastHour (the ET offset changes in between), with no next
\* session or
\* with the start of a tracked session as the next session time, either
\* flag and any of the schedule configurations.
SchedInit ==
  /\ pc = "schedule"
  /\ now \in EarlierNow..LastHour
  /\ nextSession \in {NullNum} \cup {parseSessionTimeET(k.date, k.time) : k \in Keys}
  /\ accelerated \in BOOLEAN
  /\ config \in ScheduleConfigs
  /\ schedule = NoState
  /\ nowMinute \in {0, pollIntervalAcceleratedMinutes}
  /\ MainAside
  /\ tz \in HostZones
  /\ file = <<>>
  /\ today = NullNum
  /\ sessions = <<>>
  /\ alerts = <<>>
  /\ state = <<>>
  /\ sendIdx = 0
  /\ interactions = 0
  /\ regd = {}
  /\ oppSpots = NoSpots

SchedCall ==
  /\ pc = "schedule"
  /\ pc' = "scheduled"
  /\ schedule' = calculateNextPollDelay(InMinutes(now) + nowMinute,
                                        InMinutes(nextSession), config, accelerated)
  /\ UNCHANGED <<file, now, tz, config, nextSession, accelerated, nowMinute, today,
                 sessions, alerts, state, sendIdx, interactions, regd, oppSpots>>
  /\ UNCHANGED asideVars

SchedNext == SchedCall

SchedSpec == SchedInit /\ [][SchedNext]_vars

\* ---------------------------------------------- scheduling the next poll
\* scheduleNextPoll is about to run, at any hour or half hour from EarlierNow
\* to LastHour, on a store a first cycle left behind (empty when the cycle
\* observed nothing), with any of the schedule configurations.
NextPollInit ==
  /\ pc = "arming"
  /\ now \in EarlierNow..LastHour
  /\ nowMinute \in {0, pollIntervalAcceleratedMinutes}
  /\ MainAside
  /\ config \in ScheduleConfigs
  /\ \E sq \in SessionLists :
       /\ file = FirstCycle(sq).state
       /\ oppSpots = FirstCycle(sq).spots
  /\ nextSession = NullNum
  /\ accelerated = FALSE
  /\ schedule = NoState
  /\ tz = "UTC"
  /\ today = NullNum
  /\ sessions = <<>>
  /\ alerts = <<>>
  /\ state = <<>>
  /\ sendIdx = 0
  /\ interactions = 0
  /\ regd = {}

\* scheduleNextPoll up to the call of setTimeout.
scheduleNextPoll ==
  /\ pc = "arming"
  /\ pc' = "armed"
  /\ nextSession' = getNextSessionTime(loadState(file), InMinutes(now) + nowMinute)
  /\ accelerated' = shouldAccelerate(config, file)
  /\ schedule' = calculateNextPollDelay(InMinutes(now) + nowMinute,
                                        InMinutes(nextSession'), config, accelerated')
  /\ UNCHANGED <<file, now, tz, config, nowMinute, today, sessions, alerts, state,
                 sendIdx, interactions, regd, oppSpots>>
  /\ UNCHANGED asideVars

NextPollNext == scheduleNextPoll

NextPollSpec == NextPollInit /\ [][NextPollNext]_vars

\* ------------------------------------------------------------ the process
\* main has loaded the configuration and started the HTTP server; the initial
\* poll has not begun.  The store and the configuration are those of the
\* start of the poll specification and stay as they are; the clock runs.
MainInit ==
  /\ mainPc = "start"
  /\ polls = <<>>
  /\ scheduledTimeout = NULL
  /\ httpServer = "listening"
  /\ signalled = FALSE
  /\ exited = FALSE
  /\ cycles = 0
  /\ file = <<>>
  /\ now = StartNow
  /\ tz \in HostZones
  /\ config = Config
  /\ pc = "idle"
  /\ today = NullNum
  /\ sessions = <<>>
  /\ alerts = <<>>
  /\ state = <<>>
  /\ sendIdx = 0
  /\ interactions = 0
  /\ regd = {}
  /\ oppSpots = NoSpots
  /\ nextSession = NullNum
  /\ accelerated = FALSE
  /\ schedule = NoState
  /\ nowMinute = 0
  /\ disk = <<>>
  /\ tempFile = <<>>
  /\ before = <<>>
  /\ thrown = FALSE
  /\ cleanupFailed = FALSE
  /\ loadedState = <<>>
  /\ IoAside

\* The list without its i-th element.
RemoveAt(sq, i) ==
  [j \in 1..(Len(sq) - 1) |-> IF j < i THEN sq[j] ELSE sq[j + 1]]

\* main calls poll() and awaits it: the initial poll.
MainPoll ==
  /\ ~exited
  /\ mainPc = "start"
  /\ mainPc' = "initial"
  /\ polls' = Append(polls, [by |-> "main", at |-> "scraping"])
  /\ cycles' = cycles + 1
  /\ UNCHANGED <<scheduledTimeout, httpServer, signalled, exited>>
  /\ UNCHANGED dataVars

\* An execution of poll() gets its scrape and goes on to send its alerts.
PollScraped ==
  /\ ~exited
  /\ \E i \in DOMAIN polls :
       /\ polls[i].at = "scraping"
       /\ polls' = [polls EXCEPT ![i].at = "sending"]
  /\ UNCHANGED <<mainPc, scheduledTimeout, httpServer, signalled, exited, cycles>>
  /\ UNCHANGED dataVars

\* What follows the return of poll() when scheduleNextPoll is called only
\* after a poll that did not reach its catch.
AfterPollUnlessThrown(by) ==
  /\ scheduledTimeout' = IF thrown THEN scheduledTimeout ELSE "armed"
  /\ mainPc' = IF by = "main" THEN "running" ELSE mainPc

\* What follows the return of the poll() that `by` awaited: main calls
\* scheduleNextPoll and registers the signal handlers, the timer callback
\* calls scheduleNextPoll.  scheduleNextPoll arms the wake timer.
AfterPoll(by) ==
  /\ scheduledTimeout' = "armed"
  /\ mainPc' = IF by = "main" THEN "running" ELSE mainPc

\* An execution of poll() returns, after saveState or from its catch when
\* the scrape failed, and its caller goes on.
PollReturn ==
  /\ ~exited
  /\ \E i \in DOMAIN polls :
       /\ polls' = RemoveAt(polls, i)
       /\ AfterPoll(polls[i].by)
  /\ UNCHANGED <<httpServer, signalled, exited, cycles>>
  /\ UNCHANGED dataVars

\* The timer callback that arms the next timer at once and does not await
\* its poll (polling at a fixed interval).
TimerFireInterval ==
  /\ ~exited
  /\ scheduledTimeout = "armed"
  /\ cycles < MaxCycles
  /\ scheduledTimeout' = "armed"
  /\ polls' = Append(polls, [by |-> "none", at |-> "scraping"])
  /\ cycles' = cycles + 1
  /\ UNCHANGED <<mainPc, httpServer, signalled, exited>>
  /\ UNCHANGED dataVars

\* The wake timer fires: its callback calls poll() and awaits it.
TimerFire ==
  /\ ~exited
  /\ scheduledTimeout = "armed"
  /\ cycles < MaxCycles
  /\ scheduledTimeout' = "fired"
  /\ polls' = Append(polls, [by |-> "timer", at |-> "scraping"])
  /\ cycles' = cycles + 1
  /\ UNCHANGED <<mainPc, httpServer, signalled, exited>>
  /\ UNCHANGED dataVars

\* SIGINT or SIGTERM arrives.  Before main has registered its handlers the
\* signal ends the process.  The handler clears the wake timer (a timer that
\* has fired is not armed any more) and closes the HTTP server.
Signal ==
  /\ ~exited
  /\ signalled' = TRUE
  /\ IF mainPc # "running"
       THEN /\ exited' = TRUE
            /\ UNCHANGED <<scheduledTimeout, httpServer>>
       ELSE /\ scheduledTimeout' =
                 IF scheduledTimeout = "armed" THEN "cleared" ELSE scheduledTimeout
            /\ httpServer' = IF httpServer = "listening" THEN "closing" ELSE httpServer
            /\ exited' = exited
  /\ UNCHANGED <<mainPc, polls, cycles>>
  /\ UNCHANGED dataVars

\* The HTTP server has closed: the callback of close calls process.exit(0).
ServerClosed ==
  /\ ~exited
  /\ httpServer = "closing"
  /\ httpServer' = "closed"
  /\ exited' = TRUE
  /\ UNCHANGED <<mainPc, polls, scheduledTimeout, signalled, cycles>>
  /\ UNCHANGED dataVars

MainNext ==
  \/ MainPoll
  \/ PollScraped
  \/ PollReturn
  \/ TimerFire
  \/ Signal
  \/ ServerClosed
  \/ Tick

MainSpec == MainInit /\ [][MainNext]_vars

\* ------------------------------------------------- the state file on disk
\* The properties of a SessionState record.
Fields ==
  {"session", "lastAlertType", "lastAlertAt", "lastPlayerCount",
   "isRegistered", "userResponse", "userRespondedAt", "remindAfter"}

\* The properties state files of the older schema lack.
NewFields == {"userResponse", "userRespondedAt", "remindAfter"}

\* Reading a property an object does not have gives undefined.
Absent(f) ==
  IF f \in {"userRespondedAt", "remindAfter"} THEN UndefNum ELSE UNDEFINED

IsUndefined(f, v) ==
  IF f = "userResponse" THEN v = UNDEFINED
  ELSE IF f \in {"userRespondedAt", "remindAfter"} THEN v = UndefNum
  ELSE FALSE

\* What is at a path: nothing, a file that is empty or blank, a file that is
\* not JSON (a partially written document is one), a JSON document that is
\* an object around a list of entries, or a JSON array of entries.  An entry
\* is an object: a value for each property it has.
Missing == [kind |-> "missing", value |-> <<>>]
Blank == [kind |-> "blank", value |-> <<>>]
Unparseable == [kind |-> "unparseable", value |-> <<>>]
JSONObject(entries) == [kind |-> "object", value |-> entries]
JSONArray(entries) == [kind |-> "array", value |-> entries]

\* JSON.stringify of a record leaves out the properties that are undefined.
stringifyEntry(entry) ==
  [f \in {g \in DOMAIN entry : ~IsUndefined(g, entry[g])} |-> entry[f]]

\* JSON.stringify(state, null, 2).
JSONstringify(st) == JSONArray([i \in DOMAIN st |-> stringifyEntry(st[i])])

\* JSON.parse of an entry, read property by property.
parseEntry(obj) ==
  [f \in Fields |-> IF f \in DOMAIN obj THEN obj[f] ELSE Absent(f)]

\* The document an older version of the program wrote for the same records.
OldSchema(doc) ==
  [doc EXCEPT !.value =
     [i \in DOMAIN doc.value |->
        [f \in Fields \ NewFields |-> doc.value[i][f]]]]

\* loadState that takes the entries of any JSON document, array or not.
loadStateFileUnchecked(d) ==
  IF d.kind \in {"array", "object"}
    THEN loadState([i \in DOMAIN d.value |-> parseEntry(d.value[i])])
    ELSE <<>>

\* loadState(filePath) of what is at the path.
loadStateFile(d) ==
  IF d.kind = "array"
    THEN loadState([i \in DOMAIN d.value |-> parseEntry(d.value[i])])
    ELSE <<>>

\* The state files a poll cycle may find: none, a corrupted one, one that
\* earlier cycles and responses wrote, one that an older version wrote.
StoreFiles ==
  {Missing, Blank, Unparseable}
    \cup {JSONObject(JSONstringify(FirstCycle(sq).state).value) : sq \in SessionLists}
    \cup {JSONstringify(h.state) : h \in CycleStores}
    \cup {OldSchema(JSONstringify(FirstCycle(sq).state)) : sq \in SessionLists}

\* poll() is about to run on what is at the state path; an earlier save may
\* have left its temporary file behind.
StoreInit ==
  /\ pc = "ready"
  /\ now \in StartNow..MaxNow
  /\ tz \in HostZones
  /\ config = Config
  /\ disk \in StoreFiles
  /\ before = disk
  /\ tempFile \in {Missing, Unparseable}
  /\ thrown = FALSE
  /\ cleanupFailed = FALSE
  /\ loadedState = <<>>
  /\ file = <<>>
  /\ oppSpots = NoSpots
  /\ today = NullNum
  /\ sessions = <<>>
  /\ alerts = <<>>
  /\ state = <<>>
  /\ sendIdx = 0
  /\ interactions = 0
  /\ regd = {}
  /\ nextSession = NullNum
  /\ accelerated = FALSE
  /\ schedule = NoState
  /\ nowMinute = 0
  /\ mainPc = "start"
  /\ polls = <<>>
  /\ scheduledTimeout = NULL
  /\ httpServer = "listening"
  /\ signalled = FALSE
  /\ exited = FALSE
  /\ cycles = 0
  /\ IoAside

\* Steps 1 to 5 of poll: scrape, loadState, prune, evaluate, send, update.
PollLoad ==
  /\ pc = "ready"
  /\ pc' = "saving"
  /\ today' = now
  /\ sessions' \in ScrapeOutputs(now, forwardWindowDays)
  /\ loadedState' = loadStateFile(disk)
  /\ LET pruned == pruneOldSessions(loadedState', now)
     IN  /\ alerts' = evaluate(sessions', pruned, config, now, tz)
         /\ state' = UpdateAll(pruned, sessions', alerts', now)
  /\ UNCHANGED <<file, now, tz, config, sendIdx, interactions, regd, oppSpots,
                 nextSession, accelerated, schedule, nowMinute>>
  /\ UNCHANGED <<disk, tempFile, before, thrown, cleanupFailed>>
  /\ UNCHANGED besideStore

\* saveState writes the whole state to the file directly.
SaveWriteTempDirect ==
  /\ pc = "saving"
  /\ \/ /\ disk' = JSONstringify(state)
        /\ pc' = "saved"
     \/ /\ disk' = Unparseable
        /\ pc' = "catch"
  /\ UNCHANGED <<file, now, tz, config, today, sessions, alerts, state, sendIdx,
                 interactions, regd, oppSpots, nextSession, accelerated,
                 schedule, nowMinute>>
  /\ UNCHANGED <<tempFile, before, thrown, cleanupFailed, loadedState>>
  /\ UNCHANGED besideStore

\* saveState: the directory is there or is made, and writeFileSync writes
\* the whole document to the temporary file.
SaveWriteTemp ==
  /\ pc = "saving"
  /\ pc' = "renaming"
  /\ tempFile' = JSONstringify(state)
  /\ UNCHANGED <<file, now, tz, config, today, sessions, alerts, state, sendIdx,
                 interactions, regd, oppSpots, nextSession, accelerated,
                 schedule, nowMinute>>
  /\ UNCHANGED <<disk, before, thrown, cleanupFailed, loadedState>>
  /\ UNCHANGED besideStore

\* saveState: mkdirSync or writeFileSync throws; the temporary file is as it
\* was or holds a part of the document.
SaveWriteFails ==
  /\ pc = "saving"
  /\ pc' = "catch"
  /\ tempFile' \in {tempFile, Unparseable}
  /\ UNCHANGED <<file, now, tz, config, today, sessions, alerts, state, sendIdx,
                 interactions, regd, oppSpots, nextSession, accelerated,
                 schedule, nowMinute>>
  /\ UNCHANGED <<disk, before, thrown, cleanupFailed, loadedState>>
  /\ UNCHANGED besideStore

\* saveState: renameSync puts the temporary file in the place of the state
\* file in one step.
SaveRename ==
  /\ pc = "renaming"
  /\ pc' = "saved"
  /\ disk' = tempFile
  /\ tempFile' = Missing
  /\ UNCHANGED <<file, now, tz, config, today, sessions, alerts, state, sendIdx,
                 interactions, regd, oppSpots, nextSession, accelerated,
                 schedule, nowMinute>>
  /\ UNCHANGED <<before, thrown, cleanupFailed, loadedState>>
  /\ UNCHANGED besideStore

\* saveState: renameSync throws and nothing has moved.
SaveRenameFails ==
  /\ pc = "renaming"
  /\ pc' = "catch"
  /\ UNCHANGED <<file, now, tz, config, today, sessions, alerts, state, sendIdx,
                 interactions, regd, oppSpots, nextSession, accelerated,
                 schedule, nowMinute>>
  /\ UNCHANGED storeVars
  /\ UNCHANGED besideStore

\* saveState's catch: the temporary file, if there is one, is unlinked, an
\* error of unlinkSync is ignored, and the error of the save is thrown again.
SaveCleanup ==
  /\ pc = "catch"
  /\ pc' = "thrown"
  /\ thrown' = TRUE
  /\ IF tempFile = Missing
       THEN UNCHANGED <<tempFile, cleanupFailed>>
       ELSE \/ /\ tempFile' = Missing
               /\ UNCHANGED cleanupFailed
            \/ /\ cleanupFailed' = TRUE
               /\ UNCHANGED tempFile
  /\ UNCHANGED <<file, now, tz, config, today, sessions, alerts, state, sendIdx,
                 interactions, regd, oppSpots, nextSession, accelerated,
                 schedule, nowMinute>>
  /\ UNCHANGED <<disk, before, loadedState>>
  /\ UNCHANGED besideStore

\* poll() returns: after saveState, or from its catch, which takes any
\* error of the cycle and does nothing with it.  The promise resolves.
PollSettle ==
  /\ pc \in {"saved", "thrown"}
  /\ pollResult = "pending"
  /\ pollResult' = "resolved"
  /\ UNCHANGED <<file, now, tz, config, pc, today, sessions, alerts, state,
                 sendIdx, interactions, regd, oppSpots, nextSession,
                 accelerated, schedule, nowMinute>>
  /\ UNCHANGED storeVars
  /\ UNCHANGED mainVars
  /\ UNCHANGED <<invoked, failedSends, request, confirm>>

\* The loadState of the next cycle.
Reload ==
  /\ pc \in {"saved", "thrown"}
  /\ pc' = "reloaded"
  /\ loadedState' = loadStateFile(disk)
  /\ UNCHANGED <<file, now, tz, config, today, sessions, alerts, state, sendIdx,
                 interactions, regd, oppSpots, nextSession, accelerated,
                 schedule, nowMinute>>
  /\ UNCHANGED <<disk, tempFile, before, thrown, cleanupFailed>>
  /\ UNCHANGED besideStore

StoreNext ==
  \/ PollLoad
  \/ SaveWriteTemp
  \/ SaveWriteFails
  \/ SaveRename
  \/ SaveRenameFails
  \/ SaveCleanup
  \/ PollSettle
  \/ Reload

StoreSpec == StoreInit /\ [][StoreNext]_vars

\* ------------------------------------------------ single calls of the prune
\* pruneOldSessions is about to be called on a list of records that cycles
\* and responses wrote, with any hour from EarlierNow to LastHour as date.
PruneInit ==
  /\ pc = "pruning"
  /\ now \in EarlierNow..LastHour
  /\ tz \in HostZones
  /\ config = Config
  /\ \E h \in CycleStores :
       /\ file = h.state
       /\ oppSpots = h.spots
  /\ today = NullNum
  /\ sessions = <<>>
  /\ alerts = <<>>
  /\ state = <<>>
  /\ sendIdx = 0
  /\ interactions = 0
  /\ regd = {}
  /\ nextSession = NullNum
  /\ accelerated = FALSE
  /\ schedule = NoState
  /\ nowMinute = 0
  /\ MainAside

\* state = pruneOldSessions(state, today) on the list as given.
PruneCall ==
  /\ pc = "pruning"
  /\ pc' = "pruned"
  /\ state' = pruneOldSessions(file, now)
  /\ UNCHANGED <<file, now, tz, config, today, sessions, alerts, sendIdx,
                 interactions, regd, oppSpots, nextSession, accelerated,
                 schedule, nowMinute>>
  /\ UNCHANGED asideVars

\* pruneOldSessions applied to its own result, with the same date.
PruneAgain ==
  /\ pc = "pruned"
  /\ pc' = "pruned again"
  /\ state' = pruneOldSessions(state, now)
  /\ UNCHANGED <<file, now, tz, config, today, sessions, alerts, sendIdx,
                 interactions, regd, oppSpots, nextSession, accelerated,
                 schedule, nowMinute>>
  /\ UNCHANGED asideVars

PruneNext == PruneCall \/ PruneAgain

PruneSpec == PruneInit /\ [][PruneNext]_vars

\* ------------------------------------------- the deliveries of a poll cycle
\* createNotifiers with a Slack webhook configured: the console notifier,
\* then the Slack notifier.
Notifiers == <<"console", "slack">>

\* The alert and the notifier of the next call of send, after done calls:
\* for each alert in turn, each notifier in turn.
AlertAt(done) == (done \div Len(Notifiers)) + 1
NotifierAt(done) == Notifiers[(done % Len(Notifiers)) + 1]

\* poll() is about to run on a store that earlier cycles and responses
\* wrote; nothing else touches the store meanwhile.
SendInit ==
  /\ pc = "start"
  /\ now \in StartNow..MaxNow
  /\ tz \in HostZones
  /\ config = Config
  /\ \E h \in CycleStores :
       /\ file = h.state
       /\ before = h.state
       /\ oppSpots = h.spots
  /\ today = NullNum
  /\ sessions = <<>>
  /\ alerts = <<>>
  /\ state = <<>>
  /\ sendIdx = 0
  /\ interactions = 0
  /\ regd = {}
  /\ nextSession = NullNum
  /\ accelerated = FALSE
  /\ schedule = NoState
  /\ nowMinute = 0
  /\ mainPc = "start"
  /\ polls = <<>>
  /\ scheduledTimeout = NULL
  /\ httpServer = "listening"
  /\ signalled = FALSE
  /\ exited = FALSE
  /\ cycles = 0
  /\ disk = <<>>
  /\ tempFile = <<>>
  /\ thrown = FALSE
  /\ cleanupFailed = FALSE
  /\ loadedState = <<>>
  /\ IoAside

\* Steps 1 to 3 of poll: scrapeEvents(new Date(), forwardWindowDays) was
\* called up to ScrapeLag hours ago and resolves now; load, prune and
\* evaluate follow without suspension.
SendEvaluate ==
  /\ pc = "start"
  /\ pc' = "sending"
  /\ today' \in (now - ScrapeLag)..now
  /\ sessions' \in ScrapeOutputs(today', forwardWindowDays)
  /\ state' = Loaded(file, now)
  /\ alerts' = evaluate(sessions', state', config, now, tz)
  /\ UNCHANGED <<file, now, tz, config, sendIdx, interactions, regd, oppSpots,
                 nextSession, accelerated, schedule, nowMinute>>
  /\ UNCHANGED <<mainVars, storeVars, ioVars>>

\* A call of send throws and the error leaves the loops: poll's catch
\* takes it and the cycle is over.
SendThrowsAbort ==
  /\ pc = "sending"
  /\ sendIdx < Len(alerts) * Len(Notifiers)
  /\ pc' = "saved"
  /\ invoked' = invoked \cup {<<alerts[AlertAt(sendIdx)], NotifierAt(sendIdx)>>}
  /\ failedSends' = failedSends \cup {<<alerts[AlertAt(sendIdx)], NotifierAt(sendIdx)>>}
  /\ UNCHANGED <<file, now, tz, config, today, sessions, alerts, state, sendIdx,
                 interactions, regd, oppSpots, nextSession, accelerated,
                 schedule, nowMinute>>
  /\ UNCHANGED <<mainVars, storeVars, pollResult, request, confirm>>

\* Step 4 of poll: await notifier.send(alert) resolves.
SendResolves ==
  /\ pc = "sending"
  /\ sendIdx < Len(alerts) * Len(Notifiers)
  /\ sendIdx' = sendIdx + 1
  /\ invoked' = invoked \cup {<<alerts[AlertAt(sendIdx)], NotifierAt(sendIdx)>>}
  /\ UNCHANGED <<file, now, tz, config, pc, today, sessions, alerts, state,
                 interactions, regd, oppSpots, nextSession, accelerated,
                 schedule, nowMinute>>
  /\ UNCHANGED <<mainVars, storeVars, pollResult, failedSends, request, confirm>>

\* Step 4 of poll: await notifier.send(alert) throws; the catch inside the
\* loops logs the error and the loops go on.
SendThrows ==
  /\ pc = "sending"
  /\ sendIdx < Len(alerts) * Len(Notifiers)
  /\ sendIdx' = sendIdx + 1
  /\ invoked' = invoked \cup {<<alerts[AlertAt(sendIdx)], NotifierAt(sendIdx)>>}
  /\ failedSends' = failedSends \cup {<<alerts[AlertAt(sendIdx)], NotifierAt(sendIdx)>>}
  /\ UNCHANGED <<file, now, tz, config, pc, today, sessions, alerts, state,
                 interactions, regd, oppSpots, nextSession, accelerated,
                 schedule, nowMinute>>
  /\ UNCHANGED <<mainVars, storeVars, pollResult, request, confirm>>

\* Steps 5 and 6 of poll, the loops being over: updateSessionState for each
\* scraped session, saveState.
SendFinish ==
  /\ pc = "sending"
  /\ sendIdx = Len(alerts) * Len(Notifiers)
  /\ pc' = "saved"
  /\ state' = UpdateAll(state, sessions, alerts, now)
  /\ file' = state'
  /\ oppSpots' = RecordOpportunitySpots(oppSpots, alerts)
  /\ UNCHANGED <<now, tz, config, today, sessions, alerts, sendIdx,
                 interactions, regd, nextSession, accelerated, schedule,
                 nowMinute>>
  /\ UNCHANGED <<mainVars, storeVars, ioVars>>

\* Steps 1 to 3 of the next poll, which begins once this one is over and
\* whose scrape returns the same sessions.
SendNextCycle ==
  /\ pc = "saved"
  /\ pc' = "again"
  /\ today' \in now..MaxNow
  /\ sessions \in ScrapeOutputs(today', forwardWindowDays)
  /\ now' \in {t \in today'..(today' + ScrapeLag) : t <= MaxNow}
  /\ state' = Loaded(file, now')
  /\ alerts' = evaluate(sessions, state', config, now', tz)
  /\ UNCHANGED <<file, tz, config, sessions, sendIdx,
                 interactions, regd, oppSpots, nextSession, accelerated,
                 schedule, nowMinute>>
  /\ UNCHANGED <<mainVars, storeVars, ioVars>>

SendNext ==
  \/ SendEvaluate
  \/ SendResolves
  \/ SendThrows
  \/ SendFinish
  \/ SendNextCycle

SendSpec == SendInit /\ [][SendNext]_vars

\* --------------------------------------------- the Slack interaction handler
\* 60 * 5 seconds: the age beyond which verifySlackSignature rejects.
SecondsPerMinute == 60
FiveMinutes == SecondsPerMinute * 5

\* Math.floor(Date.now() / 1000) at the instant t (UTC hours).
UnixSeconds(t) == t * MinutesPerHour * SecondsPerMinute

\* parseInt of a timestamp header that holds no number.
NaN == 0 - 3

VALID_ACTIONS ==
  [session_registered |-> "registered",
   session_not_interested |-> "not_interested",
   session_remind_later |-> "remind_later"]

\* The HMAC-SHA256 of `v0:${timestamp}:${body}` under a key, as what it
\* stands for: signatures are equal exactly when key, timestamp and body are.
Hmac(key, timestamp, body) == [key |-> key, timestamp |-> timestamp, body |-> body]

\* verifySlackSignature without the test of the age of the request.
verifySlackSignatureNoAge(signingSecret, signature, timestamp, body, t) ==
  Hmac(signingSecret, timestamp, body) = signature

verifySlackSignature(signingSecret, signature, timestamp, body, t) ==
  LET fiveMinutesAgo == UnixSeconds(t) - FiveMinutes
  IN  IF timestamp # NaN /\ timestamp < fiveMinutesAgo THEN FALSE
      ELSE Hmac(signingSecret, timestamp, body) = signature

\* parseInteractionPayload: the parsed action, or NoState for null.
parseInteractionPayload(payload) ==
  IF payload.type # "block_actions" THEN NoState
  ELSE IF payload.actions = <<>> THEN NoState
  ELSE IF ~payload.hasResponseUrl THEN NoState
  ELSE [actionId |-> payload.actions[1].action_id,
        value |-> payload.actions[1].value]

\* parseActionValue of a value, given as its parts between the pipes: the
\* session identity, or NoState for null.
parseActionValue(value) ==
  IF Len(value) < 3 THEN NoState
  ELSE IF value[3] = "" THEN NoState
  ELSE [date |-> value[1], time |-> value[2], eventName |-> value[3]]

\* processInteraction(statePath, payload, remindIntervalHours) on the state
\* file d at instant t: the result (NoState for null) and the list handed to
\* saveState (found tells whether saveState is called).
processInteractionFile(d, payload, remindHours, t) ==
  LET parsed == parseInteractionPayload(payload)
      known == parsed # NoState /\ parsed.actionId \in DOMAIN VALID_ACTIONS
      sessionId == IF known THEN parseActionValue(parsed.value) ELSE NoState
      st == loadStateFile(d)
      found == sessionId # NoState /\
               \E i \in DOMAIN st : /\ st[i].session.date = sessionId.date
                                    /\ st[i].session.time = sessionId.time
  IN  [result |-> sessionId # NoState,
       found |-> found,
       updatedState |->
         IF found
           THEN updateUserResponse(st, sessionId.date, sessionId.time,
                                   VALID_ACTIONS[parsed.actionId], remindHours, t)
           ELSE st]

\* The signing secret of the deployment, and a key that is not it.
SigningSecret == "secret"
Keysigned == {SigningSecret, "other"}

\* A (date, time) no store has a record of.
UntrackedKey == [date |-> MorningKey.date, time |-> EveningKey.time]

\* The values of the buttons: date|time|eventName of a tracked or untracked
\* session, a value of two parts, a value without event name.
ActionValues ==
  {<<k.date, k.time, "Adult Pick Up">> : k \in Keys \cup {UntrackedKey}}
    \cup {<<EveningKey.date, EveningKey.time>>,
          <<EveningKey.date, EveningKey.time, "">>}

ActionIds == DOMAIN VALID_ACTIONS \cup {"unknown_action"}

\* The payloads that parse as JSON objects.
Payloads ==
  [type : {"block_actions", "view_submission"},
   actions : {<<>>} \cup {<<[action_id |-> a, value |-> v]>> :
                            a \in ActionIds, v \in ActionValues},
   hasResponseUrl : BOOLEAN]

\* The payload field of the form body: absent, not JSON, or a payload.
NoPayload == [type |-> "absent", actions |-> <<>>, hasResponseUrl |-> FALSE]
BadJson == [type |-> "not json", actions |-> <<>>, hasResponseUrl |-> FALSE]

\* The requests POST /slack/interactions is given at instant t: with or
\* without raw body and signature headers; with a timestamp that is fresh,
\* five minutes old, older, or not a number; signed under the secret or
\* another key, over this timestamp and body or over others.
Requests(t) ==
  [transport : {"complete", "no body", "no headers"},
   timestamp : {UnixSeconds(t), UnixSeconds(t) - FiveMinutes,
                UnixSeconds(t) - FiveMinutes - 1, NaN},
   signedKey : Keysigned,
   signedOther : {"nothing", "timestamp", "body"},
   payload : Payloads \cup {NoPayload, BadJson}]

\* The x-slack-signature header of a request.
SignatureOf(r) ==
  Hmac(r.signedKey,
       IF r.signedOther = "timestamp" THEN r.timestamp - 1 ELSE r.timestamp,
       IF r.signedOther = "body" THEN NoPayload ELSE r.payload)

\* The state files the handler may find.
HandlerFiles ==
  {Missing, Unparseable}
    \cup {JSONstringify(FirstCycle(sq).state) : sq \in SessionLists}
    \cup {OldSchema(JSONstringify(FirstCycle(sq).state)) : sq \in SessionLists}

\* A request arrives.
HandlerInit ==
  /\ pc = "request"
  /\ now \in StartNow..MaxNow
  /\ tz = "ET"
  /\ config = Config
  /\ request \in Requests(now)
  /\ disk \in HandlerFiles
  /\ before = disk
  /\ tempFile = Missing
  /\ thrown = FALSE
  /\ cleanupFailed = FALSE
  /\ loadedState = <<>>
  /\ pollResult = "pending"
  /\ invoked = {}
  /\ failedSends = {}
  /\ confirm = NoState
  /\ file = <<>>
  /\ oppSpots = NoSpots
  /\ today = NullNum
  /\ sessions = <<>>
  /\ alerts = <<>>
  /\ state = <<>>
  /\ sendIdx = 0
  /\ interactions = 0
  /\ regd = {}
  /\ nextSession = NullNum
  /\ accelerated = FALSE
  /\ schedule = NoState
  /\ nowMinute = 0
  /\ mainPc = "start"
  /\ polls = <<>>
  /\ scheduledTimeout = NULL
  /\ httpServer = "listening"
  /\ signalled = FALSE
  /\ exited = FALSE
  /\ cycles = 0

\* The handler gets past its checks: body and headers are there, the
\* signature verifies, the payload is there and is JSON.
Accepted(r, t) ==
  /\ r.transport = "complete"
  /\ verifySlackSignature(SigningSecret, SignatureOf(r), r.timestamp, r.payload, t)
  /\ r.payload \notin {NoPayload, BadJson}

\* The handler answers 400 or 401 and leaves.
HandlerRejects ==
  /\ pc = "request"
  /\ ~Accepted(request, now)
  /\ pc' = "handled"
  /\ UNCHANGED <<file, now, tz, config, today, sessions, alerts, state, sendIdx,
                 interactions, regd, oppSpots, nextSession, accelerated,
                 schedule, nowMinute>>
  /\ UNCHANGED <<mainVars, storeVars, ioVars>>

\* The handler runs processInteraction and answers 200; with a result it
\* starts sendConfirmation.  saveState, when called, writes the state file
\* or throws and leaves it as it was.
HandlerProcesses ==
  /\ pc = "request"
  /\ Accepted(request, now)
  /\ LET p == processInteractionFile(disk, request.payload, remindIntervalHours, now)
     IN  /\ loadedState' = IF p.result THEN loadStateFile(disk) ELSE loadedState
         /\ \/ /\ disk' = IF p.found THEN JSONstringify(p.updatedState) ELSE disk
               /\ thrown' = FALSE
               /\ pc' = IF p.result THEN "confirming" ELSE "handled"
               /\ confirm' = IF p.result
                               THEN [responses |-> <<>>, result |-> "pending"]
                               ELSE confirm
            \/ /\ p.found
               /\ disk' = disk
               /\ thrown' = TRUE
               /\ pc' = "handled"
               /\ confirm' = confirm
  /\ UNCHANGED <<file, now, tz, config, today, sessions, alerts, state, sendIdx,
                 interactions, regd, oppSpots, nextSession, accelerated,
                 schedule, nowMinute>>
  /\ UNCHANGED <<tempFile, before, cleanupFailed>>
  /\ UNCHANGED <<pollResult, invoked, failedSends, request>>
  /\ UNCHANGED mainVars

\* sendConfirmation: the fetch of the response_url settles, with an ok
\* response, a response that is not ok, or a network error; the promise
\* resolves on ok and rejects otherwise.
ConfirmSettles ==
  /\ pc = "confirming"
  /\ pc' = "handled"
  /\ \E response \in {"ok", "not ok", "network error"} :
       confirm' = [responses |-> Append(confirm.responses, response),
                   result |-> IF response = "ok" THEN "resolved" ELSE "rejected"]
  /\ UNCHANGED <<file, now, tz, config, today, sessions, alerts, state, sendIdx,
                 interactions, regd, oppSpots, nextSession, accelerated,
                 schedule, nowMinute>>
  /\ UNCHANGED <<pollResult, invoked, failedSends, request>>
  /\ UNCHANGED <<mainVars, storeVars>>

HandlerNext ==
  \/ HandlerRejects
  \/ HandlerProcesses
  \/ ConfirmSettles

HandlerSpec == HandlerInit /\ [][HandlerNext]_vars

\* What the claims about the interaction handler speak of: the signature is
\* the secret's over this timestamp and this raw body; the age of the
\* request (a timestamp that is no number has no age); the action of a
\* block_actions payload; the parts of its value.
SignatureVerifies(r) == r.signedKey = SigningSecret /\ r.signedOther = "nothing"
NotOlder(r, t) == r.timestamp = NaN \/ UnixSeconds(t) - r.timestamp <= FiveMinutes
RecognisedAction(r) ==
  /\ r.payload.type = "block_actions"
  /\ r.payload.actions # <<>>
  /\ r.payload.actions[1].action_id \in
       {"session_registered", "session_not_interested", "session_remind_later"}
ValueParses(r) ==
  /\ r.payload.actions # <<>>
  /\ Len(r.payload.actions[1].value) = 3
  /\ r.payload.actions[1].value[3] # ""
Matches(rec, r) ==
  /\ rec.session.date = r.payload.actions[1].value[1]
  /\ rec.session.time = r.payload.actions[1].value[2]
Handled == pc \in {"confirming", "handled"}

C35_RetriesOnce ==
  (pc = "handled" /\ confirm # NoState) =>
    /\ Len(confirm.responses) = IF confirm.responses[1] = "ok" THEN 1 ELSE 2
    /\ confirm.result = "resolved" <=>
         confirm.responses[Len(confirm.responses)] = "ok"

\* ------------------------------------------- the polling loop and its failures
\* The scrape of an execution of poll() rejects (network error, timeout,
\* parse failure): poll reaches its catch.
LoopFetchFails ==
  /\ ~exited
  /\ \E i \in DOMAIN polls :
       /\ polls[i].at = "scraping"
       /\ polls' = [polls EXCEPT ![i].at = "fetch failed"]
  /\ thrown' = TRUE
  /\ UNCHANGED <<mainPc, scheduledTimeout, httpServer, signalled, exited, cycles>>
  /\ UNCHANGED <<file, now, tz, config, pc, today, sessions, alerts, state,
                 sendIdx, interactions, regd, oppSpots, nextSession,
                 accelerated, schedule, nowMinute>>
  /\ UNCHANGED <<disk, tempFile, before, cleanupFailed, loadedState>>
  /\ UNCHANGED ioVars

\* The sends of an execution of poll() are over, none of them threw.
LoopDelivered ==
  /\ ~exited
  /\ \E i \in DOMAIN polls :
       /\ polls[i].at = "sending"
       /\ polls' = [polls EXCEPT ![i].at = "saving"]
  /\ UNCHANGED <<mainPc, scheduledTimeout, httpServer, signalled, exited, cycles>>
  /\ UNCHANGED dataVars

\* The sends of an execution of poll() are over; a send threw, which the
\* loop caught and logged.
LoopDeliveryFails ==
  /\ ~exited
  /\ \E i \in DOMAIN polls :
       /\ polls[i].at = "sending"
       /\ polls' = [polls EXCEPT ![i].at = "saving"]
  /\ failedSends' = failedSends \cup {<<cycles, Notifiers[2]>>}
  /\ UNCHANGED <<mainPc, scheduledTimeout, httpServer, signalled, exited, cycles>>
  /\ UNCHANGED <<file, now, tz, config, pc, today, sessions, alerts, state,
                 sendIdx, interactions, regd, oppSpots, nextSession,
                 accelerated, schedule, nowMinute>>
  /\ UNCHANGED storeVars
  /\ UNCHANGED <<pollResult, invoked, request, confirm>>

\* saveState of an execution of poll() returns.
LoopSaved ==
  /\ ~exited
  /\ \E i \in DOMAIN polls :
       /\ polls[i].at = "saving"
       /\ polls' = [polls EXCEPT ![i].at = "saved"]
  /\ UNCHANGED <<mainPc, scheduledTimeout, httpServer, signalled, exited, cycles>>
  /\ UNCHANGED dataVars

\* saveState of an execution of poll() throws: poll reaches its catch.
LoopSaveFails ==
  /\ ~exited
  /\ \E i \in DOMAIN polls :
       /\ polls[i].at = "saving"
       /\ polls' = [polls EXCEPT ![i].at = "save failed"]
  /\ thrown' = TRUE
  /\ UNCHANGED <<mainPc, scheduledTimeout, httpServer, signalled, exited, cycles>>
  /\ UNCHANGED <<file, now, tz, config, pc, today, sessions, alerts, state,
                 sendIdx, interactions, regd, oppSpots, nextSession,
                 accelerated, schedule, nowMinute>>
  /\ UNCHANGED <<disk, tempFile, before, cleanupFailed, loadedState>>
  /\ UNCHANGED ioVars

\* An execution of poll() returns, after saveState or from its catch, and
\* its caller goes on to scheduleNextPoll.
LoopReturn ==
  /\ ~exited
  /\ \E i \in DOMAIN polls :
       /\ polls[i].at \in {"saved", "fetch failed", "save failed"}
       /\ polls' = RemoveAt(polls, i)
       /\ AfterPoll(polls[i].by)
  /\ UNCHANGED <<httpServer, signalled, exited, cycles>>
  /\ UNCHANGED dataVars

LoopNext ==
  \/ MainPoll
  \/ PollScraped
  \/ LoopFetchFails
  \/ LoopDelivered
  \/ LoopDeliveryFails
  \/ LoopSaved
  \/ LoopSaveFails
  \/ LoopReturn
  \/ TimerFire
  \/ Signal
  \/ ServerClosed
  \/ Tick

LoopSpec == MainInit /\ [][LoopNext]_vars

\* The loop under the scheduling of the event loop: main runs on, every
\* awaited promise settles (the scrape resolves or rejects, each send
\* resolves or throws, saveState returns or throws), the code after an await
\* runs, and an armed timer fires.
LoopLiveSpec ==
  /\ LoopSpec
  /\ WF_vars(MainPoll)
  /\ WF_vars(PollScraped \/ LoopFetchFails)
  /\ WF_vars(LoopDelivered \/ LoopDeliveryFails)
  /\ WF_vars(LoopSaved \/ LoopSaveFails)
  /\ WF_vars(LoopReturn)
  /\ WF_vars(TimerFire)

TypeOK ==
  /\ now \in EarlierNow..LastHour \cup StartNow..MaxNow
  /\ pc \in {"idle", "scraping", "sending", "call", "return",
            "start", "scraped", "saved", "schedule", "scheduled",
            "arming", "armed", "ready", "saving", "renaming", "catch",
            "thrown", "reloaded", "pruning", "pruned", "pruned again",
            "again", "request", "handled", "confirming"}
  /\ tz \in HostZones
  /\ config \in Configs \cup ScheduleConfigs
  /\ regd \subseteq Keys

\* ------------------------------------------------------------- properties
\* A single call of evaluate has returned.
Returned == pc = "return"

\* The sessions of the list evaluate was given (poll: of the last cycle).
Observed == {sessions[i] : i \in DOMAIN sessions}

\* Session s is not skipped as past by evaluate on this host at this instant.
Ahead(s) == ~(LocalDateTime(s.date, s.time, tz) < now)

\* The FILLING_FAST and the OPPORTUNITY condition of the configuration.
UrgentHolds(s) == SpotsRemaining(s) <= config.playerSpotsUrgent
ViableHolds(s) ==
  /\ s.goaliesRegistered >= config.minGoalies
  /\ s.playersRegistered >= config.minPlayersRegistered

\* The record carries neither a registration nor a user response.
NotSuppressed(rec) ==
  rec = NoState \/ (~rec.isRegistered /\ rec.userResponse = NULL)

\* lastAlertType of a record, null when there is no record.
LastOf(rec) == IF rec = NoState THEN NULL ELSE rec.lastAlertType

\* A step in which a poll cycle leaves the scrape: evaluate has run on the
\* scraped sessions, or the scrape failed and nothing was observed.
EvaluateStep == pc = "scraping" /\ pc' # "scraping"

C2_NoDowngrade ==
  Returned =>
    \A i \in DOMAIN alerts :
      LET s == alerts[i].session
          rec == RecordFor(state, KeyOf(s))
      IN  rec # NoState =>
            /\ alerts[i].type = "OPPORTUNITY" =>
                 rec.lastAlertType \notin {"FILLING_FAST", "NEWLY_AVAILABLE", "SOLD_OUT"}
            /\ (alerts[i].type = "FILLING_FAST"
                  /\ rec.lastAlertType \in {"NEWLY_AVAILABLE", "SOLD_OUT"}) =>
                 s.playersRegistered > rec.lastPlayerCount

\* C2 witness: FILLING_FAST was emitted for a session whose record has
\* lastAlertType NEWLY_AVAILABLE or SOLD_OUT.
C2_Witness ==
  /\ Returned
  /\ \E i \in DOMAIN alerts :
       LET rec == RecordFor(state, KeyOf(alerts[i].session))
       IN  /\ alerts[i].type = "FILLING_FAST"
           /\ rec # NoState
           /\ rec.lastAlertType \in {"NEWLY_AVAILABLE", "SOLD_OUT"}

\* C3: anti-oscillation.  With unchanged configuration and no user response
\* given, a cycle of poll() that observes for a session the snapshot the
\* previous cycle observed and stored emits no alert for that session.
C3_AntiOscillation ==
  [][(EvaluateStep /\ interactions = 0) =>
       \A i \in DOMAIN sessions' :
         sessions'[i] \in Observed =>
           AlertIdx(alerts', KeyOf(sessions'[i])) = {}]_vars

C5_SaturationCycle ==
  [][EvaluateStep =>
       \A i \in DOMAIN sessions' :
         LET s == sessions'[i]
             k == KeyOf(s)
             rec == RecordFor(file, k)
         IN  (Ahead(s) /\ ~s.isFull) =>
               /\ (rec # NoState /\ rec.session.isFull) =>
                    /\ TypesFor(alerts', k) = {"NEWLY_AVAILABLE"}
                    /\ Cardinality(AlertIdx(alerts', k)) = 1
               /\ ("NEWLY_AVAILABLE" \in TypesFor(alerts, k) /\ s \in Observed) =>
                    AlertIdx(alerts', k) = {}]_vars

C7_OpportunityReAlert ==
  Returned =>
    \A s \in Observed :
      LET k == KeyOf(s)
          rec == RecordFor(state, k)
      IN  (/\ rec # NoState
           /\ rec.lastAlertType = "OPPORTUNITY"
           /\ ViableHolds(s)
           /\ "OPPORTUNITY" \in TypesFor(alerts, k)) =>
            oppSpots[k] - SpotsRemaining(s) >= viableReAlertDelta

C9_SkipPast ==
  Returned =>
    \A s \in Observed :
      LET k == KeyOf(s)
          anchor == parseSessionTimeET(s.date, s.time)
      IN  /\ anchor <= now => AlertIdx(alerts, k) = {}
          /\ (/\ anchor > now
              /\ RecordFor(state, k) = NoState
              /\ ~s.isFull
              /\ UrgentHolds(s)) => AlertIdx(alerts, k) # {}

\* C10: once a 'registered' response has been recorded for a session, no
\* later poll cycle emits FILLING_FAST or OPPORTUNITY for it.
C10_RegisteredSuppressed ==
  [][EvaluateStep =>
       \A i \in DOMAIN alerts' :
         alerts'[i].type \in {"FILLING_FAST", "OPPORTUNITY"} =>
           KeyOf(alerts'[i].session) \notin regd]_vars

\* The stored state with the user response of session k taken back.
ClearResponse(st, k) ==
  [i \in DOMAIN st |->
     IF KeyOf(st[i].session) = k
       THEN [st[i] EXCEPT !.isRegistered = FALSE,
                          !.userResponse = NULL,
                          !.userRespondedAt = NullNum,
                          !.remindAfter = NullNum]
       ELSE st[i]]

\* C11: once a 'not_interested' response has been recorded for a session
\* (the record a cycle loads carries it), that cycle emits no FILLING_FAST
\* and no OPPORTUNITY for the session.
C11_DeclinedSuppressed ==
  [][EvaluateStep =>
       \A i \in DOMAIN alerts' :
         LET rec == RecordFor(Loaded(file, now), KeyOf(alerts'[i].session))
         IN  (rec # NoState /\ rec.userResponse = "not_interested") =>
               alerts'[i].type \notin {"FILLING_FAST", "OPPORTUNITY"}]_vars

\* C12: after a 'remind_later' response recorded with remindAfter = T, a
\* cycle with now < T emits no FILLING_FAST and no OPPORTUNITY for the
\* session, and a cycle with now >= T emits for it what it would emit had no
\* user response been given.
C12_SnoozeSuppressed ==
  [][EvaluateStep =>
       \A i \in DOMAIN sessions' :
         LET s == sessions'[i]
             k == KeyOf(s)
             loaded == Loaded(file, now)
             rec == RecordFor(loaded, k)
         IN  (rec # NoState /\ rec.userResponse = "remind_later") =>
               IF now < rec.remindAfter
                 THEN TypesFor(alerts', k) \cap {"FILLING_FAST", "OPPORTUNITY"} = {}
                 ELSE TypesFor(alerts', k) =
                        TypesFor(evaluate(<<s>>, ClearResponse(loaded, k), config, now, tz), k)]_vars

\* The state a cycle loaded (and pruned) before step 5, seen from the step
\* that saves: the cycle holds it in `state` while it awaits the notifier and
\* has just computed it from the file otherwise.
BeforeSave == IF pc = "sending" THEN state ELSE Loaded(file, now)

\* The step in which a cycle that scraped successfully saves its state.
SaveStep ==
  \/ /\ pc \in {"scraping", "sending"} /\ pc' = "idle"
     /\ ~(pc = "scraping" /\ sessions' = <<>> /\ file' = file)
  \/ pc = "scraped" /\ pc' = "saved"

\* The observation of session k in the scraped list sq, or NoState.
ObservationOf(sq, k) ==
  LET hits == {i \in DOMAIN sq : KeyOf(sq[i]) = k}
  IN  IF hits = {} THEN NoState
      ELSE sq[CHOOSE i \in hits : \A j \in hits : i >= j]

\* The record of a session that has never been stored.
FreshRecord ==
  [lastAlertType |-> NULL, lastAlertAt |-> NullNum, lastPlayerCount |-> NullNum,
   isRegistered |-> FALSE, userResponse |-> NULL, userRespondedAt |-> NullNum,
   remindAfter |-> NullNum]

\* C13: the state update of a poll cycle.  For every observed session the
\* record's snapshot becomes the current observation, alert or not;
\* lastAlertType, lastAlertAt and lastPlayerCount are carried over unless an
\* alert fired for the session in this cycle; isRegistered, userResponse,
\* userRespondedAt and remindAfter are as the cycle loaded them; the records
\* of the sessions not observed are as the cycle loaded them.
C13_StateUpdateFrame ==
  [][SaveStep =>
       \A k \in Keys :
         LET b == RecordFor(BeforeSave, k)
             a == RecordFor(file', k)
             o == ObservationOf(sessions', k)
             old == IF b = NoState THEN FreshRecord ELSE b
         IN  IF o = NoState THEN a = b
             ELSE /\ a # NoState
                  /\ a.session = o
                  /\ (TypesFor(alerts', k) = {} =>
                        /\ a.lastAlertType = old.lastAlertType
                        /\ a.lastAlertAt = old.lastAlertAt
                        /\ a.lastPlayerCount = old.lastPlayerCount)
                  /\ a.isRegistered = old.isRegistered
                  /\ a.userResponse = old.userResponse
                  /\ a.userRespondedAt = old.userRespondedAt
                  /\ a.remindAfter = old.remindAfter]_vars

\* A cycle has saved the record of a session it observed without alerting:
\* the snapshot is the new observation, the alert fields are those of the
\* earlier alert and the user's response is still there.
C13_Witness ==
  /\ pc = "saved"
  /\ \E i \in DOMAIN file :
       /\ ObservationOf(sessions, KeyOf(file[i].session)) = file[i].session
       /\ TypesFor(alerts, KeyOf(file[i].session)) = {}
       /\ file[i].lastAlertType # NULL
       /\ file[i].lastPlayerCount # file[i].session.playersRegistered
       /\ file[i].userResponse # NULL

\* C14: in every store state reachable from an empty store by poll cycles
\* and user interactions, a record with a non-null lastAlertType has a
\* non-null lastAlertAt.
C14_AlertStamped ==
  \A i \in DOMAIN file :
    file[i].lastAlertType # NULL => file[i].lastAlertAt # NullNum

\* A cycle has saved the record of a session the user had answered and the
\* cycle alerted for.
C14_Witness ==
  /\ pc = "saved"
  /\ \E i \in DOMAIN file :
       /\ file[i].lastAlertType # NULL
       /\ file[i].lastAlertAt = now
       /\ file[i].userResponse # NULL

\* C15: in every store state reachable by user responses (registered,
\* not_interested, remind_later, in any order) and poll cycles, a record with
\* a non-null remindAfter has userResponse = 'remind_later'.
C15_RemindAfterOnlySnoozed ==
  \A st \in {file, state} :
    \A i \in DOMAIN st :
      st[i].remindAfter # NullNum => st[i].userResponse = "remind_later"

\* The store holds a snoozed record, remindAfter set.
C15_Witness ==
  \E i \in DOMAIN state :
    /\ state[i].userResponse = "remind_later"
    /\ state[i].remindAfter = EarlierNow + remindIntervalHours

\* C16: after any sequence of poll cycles from an empty store, no two
\* records of the store have the same (date, time).
C16_UniqueKeys ==
  \A i, j \in DOMAIN file :
    KeyOf(file[i].session) = KeyOf(file[j].session) => i = j

\* The store holds both sessions, one of them observed again after its alert
\* (its record was replaced, not appended).
C16_Witness ==
  /\ pc = "saved"
  /\ Len(file) = 2
  /\ \E i \in DOMAIN file :
       /\ file[i].lastAlertType # NULL
       /\ file[i].lastPlayerCount # file[i].session.playersRegistered

\* The start instant of a stored or observed session.
AnchorOf(s) == parseSessionTimeET(s.date, s.time)

\* C17: the lifecycle of a record.  After a cycle the store holds a record
\* for every session the cycle observed, and no record of a session whose
\* start instant was strictly before the start of the cycle.
C17_RecordLifecycle ==
  pc = "saved" =>
    /\ \A i \in DOMAIN sessions : Found(file, KeyOf(sessions[i]))
    /\ \A i \in DOMAIN file : ~(AnchorOf(file[i].session) < now)

\* calculateNextPollDelay has returned.
Scheduled == pc = "scheduled"

\* The wake instant the scheduler asks for, in minutes.
NowMinutes == InMinutes(now) + nowMinute

WakeInstant == NowMinutes + schedule.delayMs

\* The opening of the approach window of the next session, in minutes.
ApproachOpen == InMinutes(nextSession - config.approachWindowHours)

\* The delay, in minutes, that leads from now to the wake time target (in
\* minutes) once it is clamped to the active hours.
ClampedDelay(target) ==
  clampToActiveHoursET(target, config.pollStartHour, config.pollEndHour)
    - NowMinutes

\* C18: the wake instant now + delayMs returned by calculateNextPollDelay has
\* an ET hour within [pollStartHour, pollEndHour], for every now, next
\* session time, accelerated flag and validated configuration, also around
\* the change of the ET offset.
C18_WakeInActiveHours ==
  Scheduled =>
    /\ ETHourOf(WakeInstant) >= config.pollStartHour
    /\ ETHourOf(WakeInstant) <= config.pollEndHour

\* C19: inside the approach window (now >= nextSessionTime -
\* approachWindowHours, the bound included) the reason is 'approach' and the
\* wake time before clamping is now + pollIntervalAcceleratedMinutes if
\* accelerated and now + pollIntervalMinutes otherwise.
C19_ApproachInterval ==
  (Scheduled /\ nextSession # NullNum /\ NowMinutes >= ApproachOpen) =>
    /\ schedule.reason = "approach"
    /\ schedule.delayMs =
         ClampedDelay(NowMinutes +
                        (IF accelerated THEN config.pollIntervalAcceleratedMinutes
                                        ELSE config.pollIntervalMinutes))

\* An accelerated call exactly at the opening of the approach window, whose
\* wake time needs no clamping.
C19_Witness ==
  /\ Scheduled
  /\ nextSession # NullNum
  /\ NowMinutes = ApproachOpen
  /\ accelerated
  /\ schedule.reason = "approach"
  /\ schedule.delayMs = config.pollIntervalAcceleratedMinutes

\* C20: outside the approach window (now < approachOpen), if approachOpen >
\* now + maxSleepHours the reason is 'fallback' and the target is now +
\* maxSleepHours, otherwise the reason is 'sleep' and the target is
\* approachOpen: the target before clamping is the earlier of the two.
C20_SleepOrFallback ==
  (Scheduled /\ nextSession # NullNum /\ NowMinutes < ApproachOpen) =>
    LET cap == NowMinutes + InMinutes(config.maxSleepHours)
        target == IF ApproachOpen < cap THEN ApproachOpen ELSE cap
    IN  /\ schedule.reason = IF ApproachOpen > cap THEN "fallback" ELSE "sleep"
        /\ schedule.delayMs = ClampedDelay(target)
        /\ target <= ApproachOpen

\* A call exactly maxSleepHours before the opening of the approach window:
\* the reason is 'sleep' and, no clamping needed, the delay is maxSleepHours.
C20_Witness ==
  /\ Scheduled
  /\ nextSession # NullNum
  /\ ApproachOpen = NowMinutes + InMinutes(config.maxSleepHours)
  /\ schedule.reason = "sleep"
  /\ schedule.delayMs = config.maxSleepHours * MinutesPerHour

\* The start instants, in UTC hours, of the stored sessions that start
\* strictly after now.
LaterAnchors ==
  {a \in {AnchorOf(file[i].session) : i \in DOMAIN file} : InMinutes(a) > NowMinutes}

\* C21: the scheduler takes as next anchor the earliest start among the
\* stored sessions that is strictly after now; with an empty store, or with
\* every stored session at or before now, the reason is 'fallback' and the
\* delay is maxSleepHours, made longer only by the active-hours clamp.
C21_FallbackScheduling ==
  pc = "armed" =>
    IF LaterAnchors # {}
      THEN /\ nextSession \in LaterAnchors
           /\ \A a \in LaterAnchors : nextSession <= a
      ELSE /\ nextSession = NullNum
           /\ schedule.reason = "fallback"
           /\ schedule.delayMs =
                ClampedDelay(NowMinutes + InMinutes(config.maxSleepHours))
           /\ schedule.delayMs >= InMinutes(config.maxSleepHours)

\* C22: poll cycles never overlap.  At most one execution of poll() is in
\* progress, and the wake timer is armed only when none is.
C22_NoOverlap ==
  /\ Len(polls) <= 1
  /\ scheduledTimeout = "armed" => polls = <<>>

\* The wake timer is armed again after a timer-driven cycle has returned.
C22_Witness ==
  /\ cycles >= 2
  /\ scheduledTimeout = "armed"
  /\ polls = <<>>
  /\ ~exited

\* C23: after a shutdown signal has been received no new poll cycle begins.
C23_NoCycleAfterShutdown ==
  [][signalled => Len(polls') <= Len(polls)]_vars

\* C24: the process does not exit while a poll cycle is in progress.
C24_CycleCompletes ==
  [][(exited' /\ ~exited) => polls = <<>>]_vars

\* A save is under way or over.
SaveUnderWay == pc \in {"saving", "renaming", "catch", "saved", "thrown"}

\* C25 as stated: at every step of a save the state file holds either the
\* complete previous contents or the complete new contents; when the save
\* fails the temporary file is gone, the state file is unchanged and the
\* error has been thrown to the caller.
C25_AtomicSaveAsStated ==
  /\ SaveUnderWay => disk \in {before, JSONstringify(state)}
  /\ pc = "saved" => disk = JSONstringify(state)
  /\ pc = "thrown" => /\ tempFile = Missing
                      /\ disk = before
                      /\ thrown

\* C25, amended: at every step of a save the state file holds either the
\* complete previous contents or the complete new contents; when the save
\* fails the state file is unchanged, the error has been thrown to the
\* caller, and the temporary file is gone unless removing it failed as well.
C25_AtomicSave ==
  /\ SaveUnderWay => disk \in {before, JSONstringify(state)}
  /\ pc = "saved" => disk = JSONstringify(state)
  /\ pc = "thrown" => /\ cleanupFailed \/ tempFile = Missing
                      /\ disk = before
                      /\ thrown

\* The rename failed after the whole document was written to the temporary
\* file, and the temporary file could not be removed.
C25_Witness ==
  /\ pc = "thrown"
  /\ cleanupFailed
  /\ tempFile = JSONstringify(state)
  /\ disk = before
  /\ disk # JSONstringify(state)
  /\ before.kind = "array"

\* The state file is missing, empty, not JSON, or JSON that is not an array.
Corrupted(d) == d.kind \in {"missing", "blank", "unparseable", "object"}

\* C26: loadState of a state file that is missing, empty, not parseable or
\* not an array returns the empty list, and the poll cycle that loaded it
\* goes on as a cycle on an empty store does.
C26_LoadNeverThrows ==
  /\ (pc = "saving" /\ Corrupted(before)) =>
       /\ loadedState = <<>>
       /\ alerts = evaluate(sessions, <<>>, config, now, tz)
       /\ state = UpdateAll(<<>>, sessions, alerts, now)
  /\ (pc = "reloaded" /\ Corrupted(disk)) => loadedState = <<>>

\* A cycle has loaded a JSON object that holds entries, and has alerted.
C26_Witness ==
  /\ pc = "saving"
  /\ before.kind = "object"
  /\ before.value # <<>>
  /\ loadedState = <<>>
  /\ alerts # <<>>
  /\ state # <<>>

\* null, for a property of a record.
NullOf(f) ==
  IF f \in {"userRespondedAt", "remindAfter"} THEN NullNum ELSE NULL

OnOrAfter(st, t) == {i \in DOMAIN st : st[i].session.date >= UTCDate(t)}

\* The j-th smallest element of a set of positions.
Nth(S, j) == CHOOSE i \in S : Cardinality({k \in S : k <= i}) = j

\* C28: pruneOldSessions returns exactly the records dated on or after the
\* date it is given, in their original order and unmodified.
C28_PruneExact ==
  pc = "pruned" =>
    /\ Len(state) = Cardinality(OnOrAfter(file, now))
    /\ \A j \in DOMAIN state : state[j] = file[Nth(OnOrAfter(file, now), j)]

\* Of two records, the one dated before the date was removed and the one
\* dated the very day was kept, late in that day.
C28_Witness ==
  /\ pc = "pruned"
  /\ Len(file) = 2
  /\ Len(state) = 1
  /\ state[1].session.date = UTCDate(now)
  /\ now % HoursPerDay = HoursPerDay - 1

C30_Deterministic ==
  Returned =>
    \A t \in EarlierNow..LastHour : \A z \in HostZones :
      evaluate(sessions, state, config, t, z) = alerts

\* C31: when saveState throws inside a poll cycle, the caller of poll() gets
\* the failure: the promise of poll() does not resolve as it does after a
\* cycle that saved.
C31_SaveFailureSurfaced ==
  (thrown /\ pollResult # "pending") => pollResult = "rejected"

\* The calls of send a cycle with these alerts makes when none is skipped.
AllSends == {<<alerts[i], Notifiers[j]>> : i \in DOMAIN alerts, j \in DOMAIN Notifiers}

\* C32: whichever calls of send failed, every notifier has been called for
\* every alert of the cycle when the cycle ends, and the cycle has updated
\* and saved the state.
C32_NotifierIndependence ==
  pc = "saved" =>
    /\ invoked = AllSends
    /\ file = UpdateAll(Loaded(before, now), sessions, alerts, now)

\* A cycle with two alerts has ended; the first call of send for the first
\* alert failed, and so did a call for the second alert.
C32_Witness ==
  /\ pc = "saved"
  /\ Len(alerts) = 2
  /\ <<alerts[1], Notifiers[1]>> \in failedSends
  /\ <<alerts[2], Notifiers[2]>> \in failedSends
  /\ <<alerts[1], Notifiers[2]>> \in invoked \ failedSends
  /\ invoked = AllSends
  /\ file # before

\* The alerts of the cycle that went before, as they were handed to send.
Handed == {p[1] : p \in invoked}

\* C40: the cycle records each of its alerts in the record of the session,
\* delivered or not; and the next cycle, given the same sessions, emits none
\* of these alerts again.
C40_RecordedUndelivered ==
  /\ pc = "saved" =>
       \A i \in DOMAIN alerts :
         LET rec == RecordFor(file, KeyOf(alerts[i].session))
         IN  /\ rec # NoState
             /\ rec.lastAlertType = alerts[i].type
             /\ rec.lastAlertAt = now
             /\ rec.lastPlayerCount = alerts[i].session.playersRegistered
  /\ pc = "again" => \A j \in DOMAIN alerts : alerts[j] \notin Handed

\* C33: scheduleNextPoll hands accelerated = TRUE to calculateNextPollDelay
\* exactly when some session of the saved state has playerSpotsUrgent or
\* fewer player spots remaining.
C33_AcceleratedExactly ==
  pc = "armed" =>
    (accelerated <=>
       \E i \in DOMAIN file :
         SpotsRemaining(file[i].session) <= config.playerSpotsUrgent)

\* The fields of a record that processInteraction writes.
ResponseOf(rec) ==
  [userResponse |-> rec.userResponse, userRespondedAt |-> rec.userRespondedAt,
   remindAfter |-> rec.remindAfter, isRegistered |-> rec.isRegistered]

\* C36: no lost update of a user response.  Whatever the interleaving of
\* processInteraction with a poll cycle, the userResponse, userRespondedAt,
\* remindAfter and isRegistered that are in the store when the cycle saves
\* are those of the store after the save, for every record the save keeps.
C36_NoLostUpdate ==
  [][SaveStep =>
       \A k \in Keys :
         (RecordFor(file, k) # NoState /\ RecordFor(file', k) # NoState) =>
           ResponseOf(RecordFor(file', k)) = ResponseOf(RecordFor(file, k))]_vars

\* C37: pruning never removes the record of a session that has not started.
\* A record whose ET start instant is strictly after now is in the list
\* pruneOldSessions(state, now) returns, unaltered.
C37_UnstartedSurvives ==
  pc = "pruned" =>
    \A i \in DOMAIN file :
      AnchorOf(file[i].session) > now =>
        \E j \in DOMAIN state : state[j] = file[i]

\* The wake time calculateNextPollDelay aims at before it clamps it to the
\* active hours, in minutes, as the reason it returns names it.
UnclampedTarget ==
  CASE schedule.reason = "approach" ->
         NowMinutes + (IF accelerated THEN config.pollIntervalAcceleratedMinutes
                                      ELSE config.pollIntervalMinutes)
    [] schedule.reason = "sleep" -> ApproachOpen
    [] schedule.reason = "fallback" -> NowMinutes + InMinutes(config.maxSleepHours)

\* C39: for every now, next session time or none, accelerated flag and
\* validated configuration, calculateNextPollDelay returns a delay above
\* zero, and the wake time it returns is never earlier than the target it
\* had before the active-hours clamp.
C39_PositiveDelayLaterClamp ==
  Scheduled =>
    /\ schedule.delayMs > 0
    /\ WakeInstant >= UnclampedTarget

\* C38: polling never stalls.  The return of every execution of poll(),
\* from saveState or from the catch, arms the wake timer; and while no
\* shutdown signal is received, every poll cycle that has started is
\* followed by a further one.
C38_NeverStalls ==
  /\ [][(Len(polls') < Len(polls) /\ ~signalled') =>
          scheduledTimeout' = "armed"]_vars
  /\ \A n \in 1..(MaxCycles - 1) :
       (cycles = n /\ ~signalled) ~> (cycles = n + 1 \/ signalled)

\* A cycle has failed at fetching or at saving and another at delivering,
\* and a further cycle is under way.
C38_Witness ==
  /\ ~signalled
  /\ thrown
  /\ failedSends # {}
  /\ cycles = MaxCycles
  /\ polls # <<>>
  /\ polls[1].at = "scraping"

====
